---- MODULE Spec2Model ----
(***************************************************************************)
(* A model of clash_lib's VMess client stream                              *)
(* (clash_lib/src/proxy/vmess/vmess_impl/stream.rs): construction and      *)
(* handshake, the read state machine (response header, chunk length,       *)
(* chunk body, draining to the caller) and the write state machine         *)
(* (building a chunk, flushing it to the transport).                       *)
(*                                                                         *)
(* Byte strings (BytesMut, slices, the bytes on the wire) are kept as      *)
(* ropes: a sequence of runs, each run a range lo..hi-1 of a base string.  *)
(* Every rope is canonical (no empty run, adjacent ranges of one base      *)
(* merged), so two ropes are equal exactly when they are the same bytes.   *)
(* The caller's payload is the base "plain": byte i of it is a token of    *)
(* its own, which makes a lost, duplicated or reordered byte visible.      *)
(***************************************************************************)
EXTENDS Integers, Sequences, FiniteSets, TLC

(***************************************************************************)
(* Bounds of the model.                                                    *)
(***************************************************************************)
\* chunks the caller side may build and the server may send
MaxChunks == 2
\* writes: polls that end Pending or with an error; reads: polls that end with
\* an error, and polls per chunk that drain only a part of it; both ways:
\* transfers in a row that move only a part of the bytes offered
MaxStalls == 2

(***************************************************************************)
(* Program constants.                                                      *)
(***************************************************************************)
CHUNK_SIZE == 16384
MAX_CHUNK_SIZE == 16384
SECURITY_AES_128_GCM == 3
SECURITY_CHACHA20_POLY1305 == 4
SECURITY_NONE == 5
\* a security byte outside the supported set
SECURITY_OTHER == 0
\* VmessSecurity::overhead_len: the AEAD tag
OVERHEAD_LEN == 16

Min(a, b) == IF a < b THEN a ELSE b

(***************************************************************************)
(* Byte strings.                                                           *)
(***************************************************************************)
Src(kind, key, nonce, pt, val) ==
    [kind |-> kind, key |-> key, nonce |-> nonce, pt |-> pt, val |-> val]

Run(src, lo, hi) ==
    IF lo < hi THEN << [src |-> src, lo |-> lo, hi |-> hi] >> ELSE << >>

RECURSIVE BLen(_)
BLen(x) == IF x = << >> THEN 0 ELSE (x[1].hi - x[1].lo) + BLen(Tail(x))

BCat(x, y) ==
    IF x = << >> THEN y
    ELSE IF y = << >> THEN x
    ELSE LET a == x[Len(x)]
             b == y[1]
         IN  IF a.src = b.src /\ a.hi = b.lo
             THEN SubSeq(x, 1, Len(x) - 1) \o << [a EXCEPT !.hi = b.hi] >> \o Tail(y)
             ELSE x \o y

RECURSIVE BTake(_, _)
BTake(x, n) ==
    IF n <= 0 \/ x = << >> THEN << >>
    ELSE LET h == x[1]
             w == h.hi - h.lo
         IN  IF n >= w THEN << h >> \o BTake(Tail(x), n - w)
             ELSE << [h EXCEPT !.hi = h.lo + n] >>

RECURSIVE BDrop(_, _)
BDrop(x, n) ==
    IF n <= 0 \/ x = << >> THEN x
    ELSE LET h == x[1]
             w == h.hi - h.lo
         IN  IF n >= w THEN BDrop(Tail(x), n - w)
             ELSE << [h EXCEPT !.lo = h.lo + n] >> \o Tail(x)

\* one literal byte
Lit(b) == Run(Src("lit", << >>, << >>, << >>, b), 0, 1)
\* n zero bytes (vec![0u8; n])
Zeros(n) == Run(Src("zero", << >>, << >>, << >>, 0), 0, n)
\* bytes lo..hi-1 of payload stream s (0: the caller's writes, 1: the server's)
Plain(s, lo, hi) == Run(Src("plain", << >>, << >>, << >>, s), lo, hi)

\* the value of byte i of a base string
ByteAt(src, i) ==
    CASE src.kind = "lit" -> src.val
      [] src.kind = "zero" -> 0
      [] src.kind = "plain" -> (i + src.val) % 256
      [] OTHER -> (7 * i + 3) % 256

\* the value of byte i (from 0) of a rope with more than i bytes
ByteOf(x, i) ==
    LET r == BDrop(x, i)[1] IN ByteAt(r.src, r.lo)

\* BufMut::put_u16: big-endian
put_u16(v) == BCat(Lit((v % 65536) \div 256), Lit(v % 256))
\* u16::from_be_bytes on a two-byte rope
u16_from_be_bytes(x) == 256 * ByteOf(x, 0) + ByteOf(x, 1)

(***************************************************************************)
(* Primitives (common/crypto, common/utils, vmess_impl/kdf and cipher):    *)
(* hashes are injective on the few values hashed, an AEAD blob opens only  *)
(* under the key and nonce it was sealed with, CFB adds a keystream.       *)
(***************************************************************************)
md5(x) == 10 * x + 1
sha256_16(x) == 10 * x + 2
KDF_SALT_CONST_AEAD_RESP_HEADER_LEN_KEY == 3
KDF_SALT_CONST_AEAD_RESP_HEADER_LEN_IV == 4
KDF_SALT_CONST_AEAD_RESP_HEADER_PAYLOAD_KEY == 5
KDF_SALT_CONST_AEAD_RESP_HEADER_PAYLOAD_IV == 6
vmess_kdf_1_one_shot(x, salt) == 10 * x + salt

\* ciphertext || tag of plaintext pt
aes_gcm_seal(key, nonce, pt) ==
    Run(Src("aead", key, nonce, pt, 0), 0, BLen(pt) + OVERHEAD_LEN)

\* [ok, pt]: the plaintext, when x is a whole blob sealed under key and nonce
aes_gcm_open(key, nonce, x) ==
    IF /\ Len(x) = 1
       /\ x[1].src.kind = "aead"
       /\ x[1].src.key = key
       /\ x[1].src.nonce = nonce
       /\ x[1].lo = 0
       /\ x[1].hi = BLen(x[1].src.pt) + OVERHEAD_LEN
    THEN [ok |-> TRUE, pt |-> x[1].src.pt]
    ELSE [ok |-> FALSE, pt |-> << >>]

KeyStream(key, iv, i) == (31 * key + 17 * iv + 7 * i + 5) % 256

RECURSIVE CfbFrom(_, _, _, _, _)
CfbFrom(key, iv, x, i, sign) ==
    IF i >= BLen(x) THEN << >>
    ELSE BCat(Lit((ByteOf(x, i) + sign * KeyStream(key, iv, i) + 256) % 256),
              CfbFrom(key, iv, x, i + 1, sign))

aes_cfb_encrypt(key, iv, x) == CfbFrom(key, iv, x, 0, 1)
aes_cfb_decrypt(key, iv, x) == CfbFrom(key, iv, x, 0, -1)

\* AeadCipher: key, base iv and the chunk counter, a u16
NoCipher == [present |-> FALSE, key |-> << >>, iv |-> 0, count |-> 0]
AeadCipher_new(iv, key) == [present |-> TRUE, key |-> key, iv |-> iv, count |-> 0]
ChunkNonce(c) == << c.iv, c.count >>
overhead_len(c) == IF c.present THEN OVERHEAD_LEN ELSE 0

\* AeadCipher::encrypt_inplace: buf ends with overhead_len bytes of scratch
encrypt_inplace(c, buf) ==
    [cipher |-> [c EXCEPT !.count = (c.count + 1) % 65536],
     buf |-> aes_gcm_seal(c.key, ChunkNonce(c), BTake(buf, BLen(buf) - OVERHEAD_LEN))]

\* AeadCipher::decrypt_inplace: the plaintext, then the tag's bytes, left in place
decrypt_inplace(c, buf) ==
    LET o == aes_gcm_open(c.key, ChunkNonce(c), buf)
    IN  IF o.ok
        THEN [ok |-> TRUE, cipher |-> [c EXCEPT !.count = (c.count + 1) % 65536],
              buf |-> BCat(o.pt, BDrop(buf, BLen(o.pt)))]
        ELSE [ok |-> FALSE, cipher |-> c, buf |-> buf]

(***************************************************************************)
(* State.                                                                  *)
(***************************************************************************)
VARIABLES
    \* VmessStream::new and send_handshake_request
    pc,                 \* "start", "hs_write", "hs_flush", "ready", "failed"
    new_err,            \* the io::ErrorKind new() returned, "" if none
    security, is_aead, resp_v, pad,
    resp_body_key, resp_body_iv,
    aead_read_cipher, aead_write_cipher,
    hs_out,             \* the part of the wrapped header write_all has still to write
    \* the read half
    read_state, read_pos, read_buf,
    \* the write half
    write_state, write_buf,
    \* the transport, client to server
    wire,               \* the bytes the transport accepted, in order
    t_dirty,            \* bytes were accepted since the last flush that returned
    t_shutdown,
    \* the transport, server to client
    net_fly,            \* sent by the server, not yet at the client
    net_in,             \* at the client, not yet read
    net_eof,            \* the server closed after the bytes in flight
    \* the server (the peer the read claims quantify over)
    srv,
    \* the caller of poll_write
    w_lo, w_goal,       \* the caller's current buffer is bytes w_lo..w_goal-1 of its stream
    w_open,             \* the last poll_write on that buffer did not resolve with Ok
    w_acked,            \* the sum of the counts poll_write returned
    w_last,             \* the result of the last poll_write
    w_log,              \* what the write half did: chunks built, stalls, the
                        \* transport's answer (fin) after the bytes it took last,
                        \* the length of the buffer passed when the chunk was
                        \* built (built) and in the last call (cur), and whether
                        \* a poll_write since then ended Pending (pended)
    \* the caller of poll_read
    r_got,              \* every byte poll_read put into the caller's buffers, in order
    r_last,             \* the result of the last poll_read
    r_log,              \* what the read half did: stalls, errors, bytes taken from
                        \* the transport, the sum of the sizes of the
                        \* poll_read_exact calls that completed (done), plaintext
                        \* opened, the read states of the last poll_read (path),
    \* the url-test Handler, its providers and the proxy manager
    tolerance,          \* Handler.tolerance
    fastest_proxy,      \* HandlerInner.fastest_proxy
    proxies,            \* what get_proxies returns: the names of the handlers, in order
    last_delay,         \* proxy_manager.last_delay, by name
    alive,              \* proxy_manager.alive, by name
    fastest_ret         \* what the last call of fastest() returned, until it is used

urltest_vars == << tolerance, fastest_proxy, proxies, last_delay, alive, fastest_ret >>
cfg_vars == << security, is_aead, resp_v, pad >>
new_vars == << pc, new_err, resp_body_key, resp_body_iv, hs_out >>
read_vars == << read_state, read_pos, read_buf, aead_read_cipher >>
write_vars == << write_state, write_buf, aead_write_cipher >>
out_vars == << wire, t_dirty, t_shutdown >>
in_vars == << net_fly, net_in, net_eof, srv >>
wcaller_vars == << w_lo, w_goal, w_open, w_acked, w_last, w_log >>
rcaller_vars == << r_got, r_last, r_log >>
vars == << urltest_vars, cfg_vars, new_vars, read_vars, write_vars, out_vars, in_vars,
           wcaller_vars, rcaller_vars >>

\* rand_fill: the key and the iv are opaque values, resp_v is a byte
req_body_key == 7
req_body_iv == 8
RespVs == {165}
Paddings == {15}
Securities == {SECURITY_NONE, SECURITY_AES_128_GCM, SECURITY_CHACHA20_POLY1305,
               SECURITY_OTHER}

ReadState(tag, n) == [tag |-> tag, n |-> n]
BuildingData == [tag |-> "BuildingData", consumed |-> 0, total |-> 0, written |-> 0]
FlushingData(consumed, total, written) ==
    [tag |-> "FlushingData", consumed |-> consumed, total |-> total, written |-> written]

NoResult == [kind |-> "none", n |-> 0, err |-> ""]
Ready(n) == [kind |-> "ok", n |-> n, err |-> ""]
Pending == [kind |-> "pending", n |-> 0, err |-> ""]
Failed(e) == [kind |-> "err", n |-> 0, err |-> e]

(***************************************************************************)
(* urltest::Handler.  A handler is known by its name; the proxy manager    *)
(* answers last_delay and alive by name.                                   *)
(***************************************************************************)
Names == {"a", "b", "c"}
\* the longest list the providers return
MaxProxies == 3
Delays == {10, 20}
Tolerances == {0, 65535}

NoneProxy == [some |-> FALSE, name |-> ""]
SomeProxy(n) == [some |-> TRUE, name |-> n]
NoReturn == [kind |-> "none", name |-> ""]

ProxyLists == UNION {[1..n -> Names] : n \in 0..MaxProxies}

\* Handler::new, with providers that have no proxy yet and a proxy manager
\* that has measured nothing
Handler_new(tol) ==
    /\ tolerance = tol
    /\ fastest_proxy = NoneProxy
    /\ proxies = << >>
    /\ last_delay = [n \in Names |-> 10]
    /\ alive = [n \in Names |-> FALSE]
    /\ fastest_ret = NoReturn

\* a loop body that lets a later proxy of the same delay win
ForProxyLastOnTie(st, ps, i) ==
    LET fne == IF st.inner.some /\ ps[i] = st.inner.name THEN FALSE ELSE st.fast_not_exist
        delay == last_delay[ps[i]]
        f == IF delay <= st.fastest_delay THEN i ELSE st.fastest
    IN  IF ~alive[ps[i]] THEN [st EXCEPT !.fast_not_exist = fne]
        ELSE [st EXCEPT !.fast_not_exist = fne, !.fastest = f,
                        !.fastest_delay = last_delay[ps[f]],
                        !.inner = SomeProxy(ps[f])]

\* fastest(): the body of the loop, for the proxy at index i,
\* st = [fastest, fastest_delay, fast_not_exist, inner, panic]
ForProxy(st, ps, i) ==
    LET fne == IF st.inner.some /\ ps[i] = st.inner.name THEN FALSE ELSE st.fast_not_exist
        delay == last_delay[ps[i]]
        f == IF delay < st.fastest_delay THEN i ELSE st.fastest
        fd == IF delay < st.fastest_delay THEN delay ELSE st.fastest_delay
    IN  IF ~alive[ps[i]] THEN [st EXCEPT !.fast_not_exist = fne]
        ELSE IF st.inner.some \/ fne \/ alive[ps[f]]
        THEN [st EXCEPT !.fast_not_exist = fne, !.fastest = f, !.fastest_delay = fd,
                        !.inner = SomeProxy(ps[f])]
        \* the last operand: unwrap() of fastest_proxy, which is None here
        ELSE [st EXCEPT !.fast_not_exist = fne, !.fastest = f, !.fastest_delay = fd,
                        !.panic = TRUE]

RECURSIVE ForProxies(_, _, _)
ForProxies(st, ps, i) ==
    IF i > Len(ps) \/ st.panic THEN st
    ELSE ForProxies(ForProxy(st, ps, i), ps, i + 1)

\* fastest(): [inner, ret]
fastest(ps, inner) ==
    IF ps = << >> THEN [inner |-> inner, ret |-> [kind |-> "panic", name |-> ""]]
    ELSE LET st == ForProxies([fastest |-> 1, fastest_delay |-> last_delay[ps[1]],
                               fast_not_exist |-> TRUE, inner |-> inner,
                               panic |-> FALSE], ps, 2)
         IN  [inner |-> st.inner,
              ret |-> IF st.panic \/ ~st.inner.some
                      THEN [kind |-> "panic", name |-> ""]
                      ELSE [kind |-> "ok", name |-> st.inner.name]]

\* a call of fastest(), from connect_stream or another method of the handler
Fastest ==
    /\ fastest_ret = NoReturn
    /\ \E r \in {fastest(proxies, fastest_proxy)} :
          /\ fastest_proxy' = r.inner
          /\ fastest_ret' = r.ret
    /\ UNCHANGED << tolerance, proxies, last_delay, alive, cfg_vars, new_vars, read_vars,
                    write_vars, out_vars, in_vars, wcaller_vars, rcaller_vars >>

\* the caller has what fastest() returned, or its task is gone with the panic
Returned ==
    /\ fastest_ret # NoReturn
    /\ fastest_ret' = NoReturn
    /\ UNCHANGED << tolerance, fastest_proxy, proxies, last_delay, alive, cfg_vars, new_vars,
                    read_vars, write_vars, out_vars, in_vars, wcaller_vars, rcaller_vars >>

\* the providers have another list of proxies
Provide ==
    /\ fastest_ret = NoReturn
    /\ proxies' \in ProxyLists
    /\ UNCHANGED << tolerance, fastest_proxy, last_delay, alive, fastest_ret, cfg_vars,
                    new_vars, read_vars, write_vars, out_vars, in_vars, wcaller_vars,
                    rcaller_vars >>

\* a health check has measured one proxy
HealthCheck ==
    /\ fastest_ret = NoReturn
    /\ \E n \in Names, d \in Delays, a \in BOOLEAN :
          /\ last_delay' = [last_delay EXCEPT ![n] = d]
          /\ alive' = [alive EXCEPT ![n] = a]
    /\ UNCHANGED << tolerance, fastest_proxy, proxies, fastest_ret, cfg_vars, new_vars,
                    read_vars, write_vars, out_vars, in_vars, wcaller_vars, rcaller_vars >>

\* a stream not yet constructed
StreamStart ==
    /\ pc = "start"
    /\ new_err = ""
    /\ resp_body_key = 0
    /\ resp_body_iv = 0
    /\ aead_read_cipher = NoCipher
    /\ aead_write_cipher = NoCipher
    /\ hs_out = << >>
    /\ read_state = ReadState("AeadWaitingHeaderSize", 0)
    /\ read_pos = 0
    /\ read_buf = << >>
    /\ write_state = BuildingData
    /\ write_buf = << >>
    /\ wire = << >>
    /\ t_dirty = FALSE
    /\ t_shutdown = FALSE
    /\ net_fly = << >>
    /\ net_in = << >>
    /\ net_eof = FALSE
    /\ srv = [header |-> "", chunks |-> 0, count |-> 0, sent |-> 0, clean |-> TRUE,
              cut |-> FALSE, parts |-> 0, all |-> << >>]
    /\ w_lo = 0
    /\ w_goal = 0
    /\ w_open = FALSE
    /\ w_acked = 0
    /\ w_last = NoResult
    /\ w_log = [hs_parts |-> 0, chunks |-> 0, stalls |-> 0, fin |-> "", acks |-> << >>,
                built |-> 0, cur |-> 0, pended |-> FALSE]
    /\ r_got = << >>
    /\ r_last = NoResult
    /\ r_log = [stalls |-> 0, errs |-> 0, taken |-> 0, done |-> 0, opened |-> << >>,
             path |-> << >>]

Init ==
    /\ security \in Securities
    /\ is_aead \in BOOLEAN
    /\ resp_v \in RespVs
    /\ pad \in Paddings
    /\ StreamStart
    /\ Handler_new(0)

\* a url-test handler on its own
InitUrlTest ==
    /\ security = SECURITY_NONE
    /\ is_aead = FALSE
    /\ resp_v = CHOOSE v \in RespVs : TRUE
    /\ pad = CHOOSE p \in Paddings : TRUE
    /\ StreamStart
    /\ \E tol \in Tolerances : Handler_new(tol)

NextUrlTest == Fastest \/ Returned \/ Provide \/ HealthCheck

SpecUrlTest == InitUrlTest /\ [][NextUrlTest]_vars

(***************************************************************************)
(* VmessStream::new and send_handshake_request.                            *)
(***************************************************************************)
\* the request header before the checksum, for an IPv4 destination
HeaderLen(p) == 38 + 7 + p
\* the wrapped header: HMAC || CFB(header || fnv), or
\* auth_id || sealed length || sealed header || connection nonce
HandshakeLen(aead, p) ==
    IF aead THEN 16 + (2 + 16) + (HeaderLen(p) + 4 + 16) + 8
    ELSE 16 + HeaderLen(p) + 4
Handshake(aead, p) ==
    Run(Src("handshake", << >>, << >>, << >>, 0), 0, HandshakeLen(aead, p))

Supported(s) ==
    s \in {SECURITY_NONE, SECURITY_AES_128_GCM, SECURITY_CHACHA20_POLY1305}

\* the 32-byte ChaCha20-Poly1305 key: MD5(k) || MD5(MD5(k))
ChaChaKey(k) == << md5(k), md5(md5(k)) >>

new_resp_body_key(aead) == IF aead THEN sha256_16(req_body_key) ELSE md5(req_body_key)
new_resp_body_iv(aead) == IF aead THEN sha256_16(req_body_iv) ELSE md5(req_body_iv)

new_write_cipher(s) ==
    CASE s = SECURITY_AES_128_GCM -> AeadCipher_new(req_body_iv, << req_body_key >>)
      [] s = SECURITY_CHACHA20_POLY1305 ->
            AeadCipher_new(req_body_iv, ChaChaKey(req_body_key))
      [] OTHER -> NoCipher

new_read_cipher(s, aead) ==
    CASE s = SECURITY_AES_128_GCM ->
            AeadCipher_new(new_resp_body_iv(aead), << new_resp_body_key(aead) >>)
      [] s = SECURITY_CHACHA20_POLY1305 ->
            AeadCipher_new(new_resp_body_iv(aead), ChaChaKey(req_body_key))
      [] OTHER -> NoCipher

\* new(), up to the first write of the handshake
New ==
    /\ pc = "start"
    /\ IF Supported(security)
       THEN /\ pc' = "hs_write"
            /\ new_err' = ""
            /\ resp_body_key' = new_resp_body_key(is_aead)
            /\ resp_body_iv' = new_resp_body_iv(is_aead)
            /\ aead_read_cipher' = new_read_cipher(security, is_aead)
            /\ aead_write_cipher' = new_write_cipher(security)
            /\ hs_out' = Handshake(is_aead, pad)
       ELSE /\ pc' = "failed"
            /\ new_err' = "Other"
            /\ UNCHANGED << resp_body_key, resp_body_iv, aead_read_cipher,
                            aead_write_cipher, hs_out >>
    /\ UNCHANGED << urltest_vars, cfg_vars, read_state, read_pos, read_buf, write_state, write_buf,
                    out_vars, in_vars, wcaller_vars, rcaller_vars >>

\* how many bytes the transport takes in one go, of the n offered
Accepts(n) == {1, n - 1, n} \cap (1..n)

\* a single write of the handshake, whatever part of it the transport takes
HsWriteOnce ==
    /\ pc = "hs_write"
    /\ \E k \in Accepts(BLen(hs_out)) :
          /\ wire' = BCat(wire, BTake(hs_out, k))
          /\ t_dirty' = TRUE
          /\ hs_out' = BDrop(hs_out, k)
          /\ pc' = "hs_flush"
    /\ UNCHANGED << urltest_vars, cfg_vars, new_err, resp_body_key, resp_body_iv, read_vars, write_vars,
                    t_shutdown, in_vars, wcaller_vars, rcaller_vars >>

\* stream.write_all(&out): the transport takes k bytes
HsWrite ==
    /\ pc = "hs_write"
    /\ \E k \in IF w_log.hs_parts < MaxStalls THEN Accepts(BLen(hs_out))
                ELSE {BLen(hs_out)} :
          /\ wire' = BCat(wire, BTake(hs_out, k))
          /\ t_dirty' = TRUE
          /\ hs_out' = BDrop(hs_out, k)
          /\ pc' = IF k = BLen(hs_out) THEN "hs_flush" ELSE "hs_write"
          /\ w_log' = [w_log EXCEPT !.hs_parts = IF k = BLen(hs_out) THEN 0 ELSE @ + 1]
    /\ UNCHANGED << urltest_vars, cfg_vars, new_err, resp_body_key, resp_body_iv, read_vars, write_vars,
                    t_shutdown, in_vars, w_lo, w_goal, w_open, w_acked, w_last,
                    rcaller_vars >>

\* stream.write_all(&out)?: the transport fails or takes no byte
HsWriteFail ==
    /\ pc = "hs_write"
    /\ \E e \in {"WriteZero", "BrokenPipe"} :
          /\ pc' = "failed"
          /\ new_err' = e
    /\ UNCHANGED << urltest_vars, cfg_vars, resp_body_key, resp_body_iv, hs_out, read_vars, write_vars,
                    out_vars, in_vars, wcaller_vars, rcaller_vars >>

\* stream.flush().await returns Ok: new() returns the stream
HsFlush ==
    /\ pc = "hs_flush"
    /\ pc' = "ready"
    /\ t_dirty' = FALSE
    /\ UNCHANGED << urltest_vars, cfg_vars, new_err, resp_body_key, resp_body_iv, hs_out, read_vars,
                    write_vars, wire, t_shutdown, in_vars, wcaller_vars, rcaller_vars >>

\* stream.flush().await?: the transport fails
HsFlushFail ==
    /\ pc = "hs_flush"
    /\ pc' = "failed"
    /\ new_err' = "BrokenPipe"
    /\ UNCHANGED << urltest_vars, cfg_vars, resp_body_key, resp_body_iv, hs_out, read_vars, write_vars,
                    out_vars, in_vars, wcaller_vars, rcaller_vars >>

(***************************************************************************)
(* AsyncWrite for VmessStream.                                             *)
(***************************************************************************)
\* a chunk built with up to CHUNK_SIZE bytes of payload, whatever the overhead
BuildChunkFull(wb, c, buf) ==
    LET consume_len == Min(BLen(buf), CHUNK_SIZE)
        wb1 == BCat(wb, put_u16(consume_len + overhead_len(c)))
        piece2 == BCat(BDrop(wb1, 2), BTake(buf, consume_len))
        enc == encrypt_inplace(c, BCat(piece2, Zeros(overhead_len(c))))
        wb2 == BCat(BTake(wb1, 2), IF c.present THEN enc.buf ELSE piece2)
    IN  [ws |-> FlushingData(consume_len, BLen(wb2), 0),
         wb |-> wb2,
         cipher |-> IF c.present THEN enc.cipher ELSE c]

\* a chunk built without keeping the cipher that sealed it
BuildChunkSameNonce(wb, c, buf) ==
    LET consume_len == Min(BLen(buf), CHUNK_SIZE - overhead_len(c))
        wb1 == BCat(wb, put_u16(consume_len + overhead_len(c)))
        piece2 == BCat(BDrop(wb1, 2), BTake(buf, consume_len))
        enc == encrypt_inplace(c, BCat(piece2, Zeros(overhead_len(c))))
        wb2 == BCat(BTake(wb1, 2), IF c.present THEN enc.buf ELSE piece2)
    IN  [ws |-> FlushingData(consume_len, BLen(wb2), 0), wb |-> wb2, cipher |-> c]

\* a build that, given an empty buffer, emits a bare zero length and seals nothing
BuildChunkBareEmpty(wb, c, buf) ==
    LET consume_len == Min(BLen(buf), CHUNK_SIZE - overhead_len(c))
        wb1 == BCat(wb, put_u16(consume_len + overhead_len(c)))
        piece2 == BCat(BDrop(wb1, 2), BTake(buf, consume_len))
        enc == encrypt_inplace(c, BCat(piece2, Zeros(overhead_len(c))))
        wb2 == BCat(BTake(wb1, 2), IF c.present THEN enc.buf ELSE piece2)
    IN  IF BLen(buf) = 0
        THEN [ws |-> FlushingData(0, BLen(wb) + 2, 0), wb |-> BCat(wb, put_u16(0)),
              cipher |-> c]
        ELSE [ws |-> FlushingData(consume_len, BLen(wb2), 0),
              wb |-> wb2,
              cipher |-> IF c.present THEN enc.cipher ELSE c]

\* WriteState::BuildingData: one chunk of buf into write_buf
BuildChunk(wb, c, buf) ==
    LET overhead == overhead_len(c)
        max_payload_size == CHUNK_SIZE - overhead
        consume_len == Min(BLen(buf), max_payload_size)
        payload_len == consume_len + overhead
        size_bytes == 2
        wb1 == BCat(wb, put_u16(payload_len))
        head == BTake(wb1, size_bytes)
        piece2 == BCat(BDrop(wb1, size_bytes), BTake(buf, consume_len))
        enc == encrypt_inplace(c, BCat(piece2, Zeros(overhead)))
        wb2 == BCat(head, IF c.present THEN enc.buf ELSE piece2)
    IN  [ws |-> FlushingData(consume_len, BLen(wb2), 0),
         wb |-> wb2,
         cipher |-> IF c.present THEN enc.cipher ELSE c]

\* what the transport answers once it takes no more bytes in this poll
Fins == {"pending", "zero", "err"}
FinResult(fin) ==
    CASE fin = "pending" -> Pending
      [] fin = "zero" -> Failed("WriteZero")
      [] OTHER -> Failed("BrokenPipe")

\* a flush that leaves in write_buf the bytes the transport took
FlushChunkResend(b, k, fin) ==
    IF k > 0 /\ b.ws.written + k >= b.ws.total
    THEN [ws |-> BuildingData, wb |-> BDrop(b.wb, k), cipher |-> b.cipher,
          taken |-> BTake(b.wb, k), res |-> Ready(b.ws.consumed)]
    ELSE [ws |-> FlushingData(b.ws.consumed, b.ws.total, b.ws.written + k),
          wb |-> b.wb, cipher |-> b.cipher, taken |-> BTake(b.wb, k),
          res |-> FinResult(fin)]

\* a flush that takes a transport's Ok(0) for one that is not ready
FlushChunkNoZeroCheck(b, k, fin) ==
    IF k > 0 /\ b.ws.written + k >= b.ws.total
    THEN [ws |-> BuildingData, wb |-> BDrop(b.wb, k), cipher |-> b.cipher,
          taken |-> BTake(b.wb, k), res |-> Ready(b.ws.consumed)]
    ELSE [ws |-> FlushingData(b.ws.consumed, b.ws.total, b.ws.written + k),
          wb |-> BDrop(b.wb, k), cipher |-> b.cipher, taken |-> BTake(b.wb, k),
          res |-> IF fin = "zero" THEN Pending ELSE FinResult(fin)]

\* a flush that goes back to BuildingData as soon as the transport took bytes
FlushChunkEarly(b, k, fin) ==
    IF k > 0
    THEN [ws |-> BuildingData, wb |-> BDrop(b.wb, k), cipher |-> b.cipher,
          taken |-> BTake(b.wb, k), res |-> Ready(b.ws.consumed)]
    ELSE [ws |-> FlushingData(b.ws.consumed, b.ws.total, b.ws.written), wb |-> b.wb,
          cipher |-> b.cipher, taken |-> << >>, res |-> FinResult(fin)]

\* WriteState::FlushingData: the transport takes k bytes of write_buf in this poll
\* (in one or several poll_write_buf calls), then answers fin if bytes are left
FlushChunk(b, k, fin) ==
    LET consumed == b.ws.consumed
        total == b.ws.total
        written == b.ws.written
        wb == BDrop(b.wb, k)
    IN  IF k > 0 /\ written + k >= total
        THEN [ws |-> BuildingData, wb |-> wb, cipher |-> b.cipher,
              taken |-> BTake(b.wb, k), res |-> Ready(consumed)]
        ELSE [ws |-> FlushingData(consumed, total, written + k), wb |-> wb,
              cipher |-> b.cipher, taken |-> BTake(b.wb, k),
              res |-> FinResult(fin)]

\* poll_write: the loop over write_state
BeforeFlush(ws, wb, c, buf) ==
    IF ws.tag = "BuildingData" THEN BuildChunk(wb, c, buf)
    ELSE [ws |-> ws, wb |-> wb, cipher |-> c]

poll_write(ws, wb, c, buf, k, fin) == FlushChunk(BeforeFlush(ws, wb, c, buf), k, fin)

\* the lengths of the buffers the caller writes
WriteSizes == {0, 1, 16369, 20000}

\* poll_write by a caller whose buffers have one of the lengths in sizes
PollWriteOf(sizes) ==
    /\ pc = "ready"
    /\ ~t_shutdown
    /\ write_state.tag = "BuildingData" => w_log.chunks < MaxChunks
    /\ \E n \in IF ~w_open /\ w_acked >= w_goal THEN sizes ELSE {0} :
       \E lo \in {IF w_open THEN w_lo ELSE w_acked} :
       \E hi \in {IF ~w_open /\ w_acked >= w_goal THEN w_acked + n ELSE w_goal} :
       \E len \in {BLen(BeforeFlush(write_state, write_buf, aead_write_cipher,
                                    Plain(0, lo, hi)).wb)} :
       \E k \in IF w_log.stalls < MaxStalls THEN {0} \cup Accepts(len) ELSE {len} :
       \E fin \in IF k = len THEN {"pending"} ELSE Fins :
       \E r \in {poll_write(write_state, write_buf, aead_write_cipher,
                            Plain(0, lo, hi), k, fin)} :
          /\ write_state' = r.ws
          /\ write_buf' = r.wb
          /\ aead_write_cipher' = r.cipher
          /\ wire' = BCat(wire, r.taken)
          /\ t_dirty' = (t_dirty \/ k > 0)
          /\ w_lo' = lo
          /\ w_goal' = hi
          /\ w_open' = (r.res.kind # "ok")
          /\ w_acked' = w_acked + r.res.n
          /\ w_last' = r.res
          /\ w_log' =
               [hs_parts |-> w_log.hs_parts,
                chunks |-> w_log.chunks
                             + (IF write_state.tag = "BuildingData" THEN 1 ELSE 0),
                stalls |-> w_log.stalls + (IF r.res.kind = "ok" THEN 0 ELSE 1),
                fin |-> IF k = len THEN "" ELSE fin,
                built |-> IF write_state.tag = "BuildingData"
                          THEN hi - lo ELSE w_log.built,
                cur |-> hi - lo,
                pended |-> IF r.res.kind = "pending" THEN TRUE
                           ELSE IF write_state.tag = "BuildingData" THEN FALSE
                           ELSE w_log.pended,
                acks |-> IF r.res.kind = "ok"
                         THEN Append(w_log.acks, r.res.n) ELSE w_log.acks]
    /\ UNCHANGED << urltest_vars, cfg_vars, new_vars, read_state, read_pos, read_buf, aead_read_cipher,
                    t_shutdown, in_vars, rcaller_vars >>

PollWrite == PollWriteOf(WriteSizes)

\* the lengths of the buffers of a caller that passes what it likes
FreeSizes == {0, 1, 3, 20000}

\* poll_write by a caller that passes any buffer in any call, the one of an
\* unresolved write or another
PollWriteFree ==
    /\ pc = "ready"
    /\ ~t_shutdown
    /\ write_state.tag = "BuildingData" => w_log.chunks < MaxChunks
    /\ \E n \in FreeSizes :
       \E lo \in {w_acked} :
       \E hi \in {w_acked + n} :
       \E len \in {BLen(BeforeFlush(write_state, write_buf, aead_write_cipher,
                                    Plain(0, lo, hi)).wb)} :
       \E k \in IF w_log.stalls < MaxStalls THEN {0} \cup Accepts(len) ELSE {len} :
       \E fin \in IF k = len THEN {"pending"} ELSE Fins :
       \E r \in {poll_write(write_state, write_buf, aead_write_cipher,
                            Plain(0, lo, hi), k, fin)} :
          /\ write_state' = r.ws
          /\ write_buf' = r.wb
          /\ aead_write_cipher' = r.cipher
          /\ wire' = BCat(wire, r.taken)
          /\ t_dirty' = (t_dirty \/ k > 0)
          /\ w_lo' = lo
          /\ w_goal' = hi
          /\ w_open' = (r.res.kind # "ok")
          /\ w_acked' = w_acked + r.res.n
          /\ w_last' = r.res
          /\ w_log' =
               [hs_parts |-> w_log.hs_parts,
                chunks |-> w_log.chunks
                             + (IF write_state.tag = "BuildingData" THEN 1 ELSE 0),
                stalls |-> w_log.stalls + (IF r.res.kind = "ok" THEN 0 ELSE 1),
                fin |-> IF k = len THEN "" ELSE fin,
                built |-> IF write_state.tag = "BuildingData" THEN n ELSE w_log.built,
                cur |-> n,
                pended |-> IF r.res.kind = "pending" THEN TRUE
                           ELSE IF write_state.tag = "BuildingData" THEN FALSE
                           ELSE w_log.pended,
                acks |-> IF r.res.kind = "ok"
                         THEN Append(w_log.acks, r.res.n) ELSE w_log.acks]
    /\ UNCHANGED << urltest_vars, cfg_vars, new_vars, read_state, read_pos, read_buf, aead_read_cipher,
                    t_shutdown, in_vars, rcaller_vars >>

\* a poll_flush that first sends what is left of the chunk in write_buf
PollFlushDrain ==
    /\ pc = "ready"
    /\ ~t_shutdown
    /\ t_dirty' = FALSE
    /\ wire' = BCat(wire, write_buf)
    /\ write_buf' = << >>
    /\ write_state' = BuildingData
    /\ UNCHANGED << urltest_vars, cfg_vars, new_vars, read_vars, aead_write_cipher, t_shutdown, in_vars,
                    wcaller_vars, rcaller_vars >>

\* poll_flush: forwarded to the transport, which returns Ok
PollFlush ==
    /\ pc = "ready"
    /\ ~t_shutdown
    /\ t_dirty' = FALSE
    /\ UNCHANGED << urltest_vars, cfg_vars, new_vars, read_vars, write_vars, wire, t_shutdown, in_vars,
                    wcaller_vars, rcaller_vars >>

\* poll_shutdown: forwarded to the transport, which returns Ok
PollShutdown ==
    /\ pc = "ready"
    /\ ~t_shutdown
    /\ t_shutdown' = TRUE
    /\ UNCHANGED << urltest_vars, cfg_vars, new_vars, read_vars, write_vars, wire, t_dirty, in_vars,
                    wcaller_vars, rcaller_vars >>

\* poll_write in BuildingData with the write counter at 65535, in a build with
\* overflow checks: count += 1 panics and the stream is gone
PollWritePanic ==
    /\ pc = "ready"
    /\ ~t_shutdown
    /\ write_state.tag = "BuildingData"
    /\ w_log.chunks < MaxChunks
    /\ aead_write_cipher.present
    /\ aead_write_cipher.count = 65535
    /\ pc' = "panicked"
    /\ w_last' = Failed("panic")
    /\ UNCHANGED << urltest_vars, cfg_vars, new_err, resp_body_key, resp_body_iv, hs_out, read_vars,
                    write_vars, out_vars, in_vars, w_lo, w_goal, w_open, w_acked, w_log,
                    rcaller_vars >>

(***************************************************************************)
(* ReadExt and AsyncRead for VmessStream.  A read takes what has arrived   *)
(* (net) or, with nothing there, ends Pending, or at end of stream fills   *)
(* no byte.                                                                *)
(***************************************************************************)
\* read_buf.reserve(size); set_len(size): the bytes past the old length are not set
set_len(buf, size) ==
    IF BLen(buf) >= size THEN BTake(buf, size)
    ELSE BCat(buf, Run(Src("uninit", << >>, << >>, << >>, 0), BLen(buf), size))

\* the write of bytes x into buf[pos..]
Overwrite(buf, pos, x) == BCat(BCat(BTake(buf, pos), x), BDrop(buf, pos + BLen(x)))

\* a read that takes a transport at its end for one with nothing to give yet
poll_read_exact_no_eof(st, size) ==
    IF st.pos < size
    THEN IF BLen(st.net) + st.pos < size
         THEN [st EXCEPT !.buf = Overwrite(set_len(st.buf, size), st.pos, st.net),
                         !.net = << >>, !.pos = st.pos + BLen(st.net), !.r = "pending"]
         ELSE [st EXCEPT !.buf = Overwrite(set_len(st.buf, size), st.pos,
                                           BTake(st.net, size - st.pos)),
                         !.net = BDrop(st.net, size - st.pos), !.pos = 0, !.r = "ok"]
    ELSE [st EXCEPT !.buf = set_len(st.buf, size), !.pos = 0, !.r = "ok"]

\* a poll_read_exact that fills read_buf from its start in every call
poll_read_exact_restart(st, size) ==
    IF 0 < size
    THEN IF BLen(st.net) = 0
         THEN [st EXCEPT !.buf = set_len(st.buf, size),
                         !.r = IF st.eof THEN "eof" ELSE "pending"]
         ELSE IF BLen(st.net) < size
         THEN [st EXCEPT !.buf = Overwrite(set_len(st.buf, size), 0, st.net),
                         !.net = << >>, !.pos = BLen(st.net),
                         !.r = IF st.eof THEN "eof" ELSE "pending"]
         ELSE [st EXCEPT !.buf = Overwrite(set_len(st.buf, size), 0, BTake(st.net, size)),
                         !.net = BDrop(st.net, size), !.pos = 0, !.r = "ok"]
    ELSE [st EXCEPT !.buf = set_len(st.buf, size), !.pos = 0, !.r = "ok"]

\* poll_read_exact on [pos, buf, net, eof]: r is "ok", "pending", "eof" or "panic"
poll_read_exact(st, size) ==
    LET buf0 == set_len(st.buf, size)
        k == Min(BLen(st.net), size - st.pos)
    IN  IF st.pos < size
        THEN IF BLen(st.net) = 0
             THEN [st EXCEPT !.buf = buf0, !.r = IF st.eof THEN "eof" ELSE "pending"]
             ELSE LET buf1 == Overwrite(buf0, st.pos, BTake(st.net, k))
                      net1 == BDrop(st.net, k)
                      pos1 == st.pos + k
                  IN  IF pos1 < size
                      THEN [st EXCEPT !.buf = buf1, !.net = net1, !.pos = pos1,
                                      !.r = IF st.eof THEN "eof" ELSE "pending"]
                      ELSE IF pos1 = size
                      THEN [st EXCEPT !.buf = buf1, !.net = net1, !.pos = 0, !.r = "ok"]
                      ELSE [st EXCEPT !.buf = buf1, !.net = net1, !.pos = pos1,
                                      !.r = "panic"]
        ELSE IF st.pos = size
        THEN [st EXCEPT !.buf = buf0, !.pos = 0, !.r = "ok"]
        ELSE [st EXCEPT !.buf = buf0, !.r = "panic"]

\* a call of poll_read_exact(size) has returned: the sizes of those that
\* completed are summed up
Completed(e, size) == IF e.r = "ok" THEN [e EXCEPT !.done = @ + size] ELSE e

\* what a poll_read_exact that did not complete makes poll_read return
ExactResult(r) ==
    CASE r = "pending" -> Pending
      [] r = "eof" -> Failed("UnexpectedEof")
      [] OTHER -> Failed("panic")

\* the checks without the one on resp_v
HeaderResultAnyV(hdr, v, too_short) ==
    IF too_short THEN Failed("InvalidData: header too short")
    ELSE IF ByteOf(hdr, 2) # 0 THEN Failed("InvalidData: dynamic port not supported")
    ELSE Ready(0)

\* the checks without the one on the command byte
HeaderResultAnyCommand(hdr, v, too_short) ==
    IF too_short THEN Failed("InvalidData: header too short")
    ELSE IF ByteOf(hdr, 0) # v THEN Failed("InvalidData: invalid resp_v")
    ELSE Ready(0)

\* the checks on the decrypted response header
HeaderResult(hdr, v, too_short) ==
    IF too_short THEN Failed("InvalidData: header too short")
    ELSE IF ByteOf(hdr, 0) # v THEN Failed("InvalidData: invalid resp_v")
    ELSE IF ByteOf(hdr, 2) # 0 THEN Failed("InvalidData: dynamic port not supported")
    ELSE Ready(0)

\* ReadState::AeadWaitingHeaderSize, legacy: the 4-byte header
\* (e is what poll_read_exact left)
LegacyHeaderRead(e, res) ==
    IF e.r # "ok" THEN [e EXCEPT !.res = ExactResult(e.r)]
    ELSE IF res.kind # "ok" THEN [e EXCEPT !.buf = << >>, !.res = res]
    ELSE [e EXCEPT !.buf = << >>, !.rs = ReadState("StreamWaitingLength", 0)]

LegacyHeaderGot(e, key, iv, v) ==
    LegacyHeaderRead(e, HeaderResult(aes_cfb_decrypt(key, iv, e.buf), v, FALSE))

LegacyHeader(st, key, iv, v) == LegacyHeaderGot(Completed(poll_read_exact(st, 4), 4), key, iv, v)

\* ReadState::AeadWaitingHeaderSize, AEAD: the sealed header length
\* (e is what poll_read_exact left, o what opening e.buf gave)
AeadHeaderSizeRead(e, o) ==
    IF e.r # "ok" THEN [e EXCEPT !.res = ExactResult(e.r)]
    ELSE IF ~o.ok THEN [e EXCEPT !.buf = << >>, !.res = Failed("decryption failed")]
    ELSE IF BLen(o.pt) < 2
    THEN [e EXCEPT !.buf = << >>, !.res = Failed("InvalidData: header length")]
    ELSE [e EXCEPT !.buf = << >>,
                   !.rs = ReadState("AeadWaitingHeader", u16_from_be_bytes(BTake(o.pt, 2)))]

AeadHeaderSizeGot(e, key, iv) ==
    AeadHeaderSizeRead(e,
        aes_gcm_open(<< vmess_kdf_1_one_shot(key, KDF_SALT_CONST_AEAD_RESP_HEADER_LEN_KEY) >>,
                     << vmess_kdf_1_one_shot(iv, KDF_SALT_CONST_AEAD_RESP_HEADER_LEN_IV) >>,
                     e.buf))

AeadHeaderSize(st, key, iv) == AeadHeaderSizeGot(Completed(poll_read_exact(st, 18), 18), key, iv)

\* ReadState::AeadWaitingHeader(header_size): the sealed header
\* (e is what poll_read_exact left, o what opening e.buf gave)
AeadHeaderRead(e, o, res) ==
    IF e.r # "ok" THEN [e EXCEPT !.res = ExactResult(e.r)]
    ELSE IF ~o.ok THEN [e EXCEPT !.buf = << >>, !.res = Failed("decryption failed")]
    ELSE IF res.kind # "ok" THEN [e EXCEPT !.buf = << >>, !.res = res]
    ELSE [e EXCEPT !.buf = << >>, !.rs = ReadState("StreamWaitingLength", 0)]

AeadHeaderOpened(e, o, v) == AeadHeaderRead(e, o, HeaderResult(o.pt, v, BLen(o.pt) < 4))

AeadHeaderGot(e, key, iv, v) ==
    AeadHeaderOpened(e,
        aes_gcm_open(<< vmess_kdf_1_one_shot(key, KDF_SALT_CONST_AEAD_RESP_HEADER_PAYLOAD_KEY) >>,
                     << vmess_kdf_1_one_shot(iv, KDF_SALT_CONST_AEAD_RESP_HEADER_PAYLOAD_IV) >>,
                     e.buf),
        v)

AeadHeader(st, key, iv, v) == AeadHeaderGot(Completed(poll_read_exact(st, st.rs.n + 16), st.rs.n + 16), key, iv, v)

\* ReadState::StreamWaitingLength
\* a length taken as it comes
StreamWaitingLengthAny(e, len) ==
    IF e.r # "ok" THEN [e EXCEPT !.res = ExactResult(e.r)]
    ELSE [e EXCEPT !.buf = << >>, !.rs = ReadState("StreamWaitingData", len)]

\* (e is what poll_read_exact left)
StreamWaitingLengthRead(e, len) ==
    IF e.r # "ok" THEN [e EXCEPT !.res = ExactResult(e.r)]
    ELSE IF len > MAX_CHUNK_SIZE
    THEN [e EXCEPT !.buf = << >>, !.res = Failed("InvalidData: chunk size too large")]
    ELSE [e EXCEPT !.buf = << >>, !.rs = ReadState("StreamWaitingData", len)]

StreamWaitingLengthGot(e) ==
    StreamWaitingLengthRead(e, IF e.r = "ok" THEN u16_from_be_bytes(e.buf) ELSE 0)

StreamWaitingLength(st) == StreamWaitingLengthGot(Completed(poll_read_exact(st, 2), 2))

\* a StreamWaitingData that takes the overhead off the size before it looks
\* at what decrypt_inplace gave
StreamWaitingDataLenFirst(e, d, size, data_len) ==
    IF e.r # "ok" THEN [e EXCEPT !.res = ExactResult(e.r)]
    ELSE IF ~e.cipher.present
    THEN [e EXCEPT !.rs = ReadState("StreamFlushingData", size),
                   !.opened = BCat(@, e.buf)]
    ELSE IF data_len < 0 THEN [e EXCEPT !.res = Failed("panic")]
    ELSE IF ~d.ok THEN [e EXCEPT !.res = Failed("decryption failed")]
    ELSE [e EXCEPT !.cipher = d.cipher,
                   !.buf = BTake(d.buf, data_len),
                   !.rs = ReadState("StreamFlushingData", data_len),
                   !.opened = BCat(@, BTake(d.buf, data_len))]

\* ReadState::StreamWaitingData(size)
\* (e is what poll_read_exact left, d what decrypt_inplace gave)
StreamWaitingDataRead(e, d, size, data_len) ==
    IF e.r # "ok" THEN [e EXCEPT !.res = ExactResult(e.r)]
    ELSE IF ~e.cipher.present
    THEN [e EXCEPT !.rs = ReadState("StreamFlushingData", size),
                   !.opened = BCat(@, e.buf)]
    ELSE IF ~d.ok THEN [e EXCEPT !.res = Failed("decryption failed")]
    ELSE IF data_len < 0 THEN [e EXCEPT !.res = Failed("panic")]
    ELSE [e EXCEPT !.cipher = d.cipher,
                   !.buf = BTake(d.buf, data_len),
                   !.rs = ReadState("StreamFlushingData", data_len),
                   !.opened = BCat(@, BTake(d.buf, data_len))]

StreamWaitingDataGot(e, size) ==
    StreamWaitingDataRead(e, decrypt_inplace(e.cipher, e.buf), size,
                          size - overhead_len(e.cipher))

StreamWaitingData(st) == StreamWaitingDataGot(Completed(poll_read_exact(st, st.rs.n), st.rs.n), st.rs.n)

\* a drain that copies from read_buf and leaves the bytes there
StreamFlushingDataCopy(st, cap) ==
    [st EXCEPT !.out = BTake(st.buf, Min(cap, st.rs.n)),
               !.rs = IF Min(cap, st.rs.n) < st.rs.n
                      THEN ReadState("StreamFlushingData", st.rs.n - Min(cap, st.rs.n))
                      ELSE ReadState("StreamWaitingLength", 0),
               !.res = Ready(Min(cap, st.rs.n))]

\* a drain after which the next chunk is awaited behind a header of its own
StreamFlushingDataRehead(st, cap) ==
    [st EXCEPT !.out = BTake(st.buf, Min(cap, st.rs.n)),
               !.buf = BDrop(st.buf, Min(cap, st.rs.n)),
               !.rs = IF Min(cap, st.rs.n) < st.rs.n
                      THEN ReadState("StreamFlushingData", st.rs.n - Min(cap, st.rs.n))
                      ELSE ReadState("AeadWaitingHeaderSize", 0),
               !.res = Ready(Min(cap, st.rs.n))]

\* ReadState::StreamFlushingData(size): cap is buf.remaining()
StreamFlushingData(st, cap) ==
    LET size == st.rs.n
        to_read == Min(cap, size)
    IN  IF to_read > BLen(st.buf) THEN [st EXCEPT !.res = Failed("panic")]
        ELSE [st EXCEPT !.out = BTake(st.buf, to_read),
                        !.buf = BDrop(st.buf, to_read),
                        !.rs = IF to_read < size
                               THEN ReadState("StreamFlushingData", size - to_read)
                               ELSE ReadState("StreamWaitingLength", 0),
                        !.res = Ready(to_read)]

\* one turn of poll_read's loop
ReadTurn(st, aead, key, iv, v, cap) ==
    CASE st.rs.tag = "AeadWaitingHeaderSize" ->
            IF ~aead THEN LegacyHeader(st, key, iv, v) ELSE AeadHeaderSize(st, key, iv)
      [] st.rs.tag = "AeadWaitingHeader" -> AeadHeader(st, key, iv, v)
      [] st.rs.tag = "StreamWaitingLength" -> StreamWaitingLength(st)
      [] st.rs.tag = "StreamWaitingData" -> StreamWaitingData(st)
      [] OTHER -> StreamFlushingData(st, cap)

\* the read states the loop has been in during this poll, in order
Visit(t) ==
    IF t.rs.tag = t.path[Len(t.path)] THEN t
    ELSE [t EXCEPT !.path = Append(@, t.rs.tag)]

\* poll_read: the loop, until a turn returns
RECURSIVE poll_read(_, _, _, _, _, _)
ReadLoop(t, aead, key, iv, v, cap) ==
    IF t.res.kind # "none" THEN t ELSE poll_read(t, aead, key, iv, v, cap)

poll_read(st, aead, key, iv, v, cap) ==
    ReadLoop(Visit(ReadTurn(st, aead, key, iv, v, cap)), aead, key, iv, v, cap)

(***************************************************************************)
(* The server and the transport towards the client.  The server derives    *)
(* the response keys as the protocol says and sends a response header,     *)
(* then chunks; it may also send a header or a chunk the client must       *)
(* refuse, and close.                                                      *)
(***************************************************************************)
ProtoRespKey(aead) == IF aead THEN sha256_16(req_body_key) ELSE md5(req_body_key)
ProtoRespIv(aead) == IF aead THEN sha256_16(req_body_iv) ELSE md5(req_body_iv)
ProtoChunkKey(s, aead) ==
    IF s = SECURITY_CHACHA20_POLY1305 THEN ChaChaKey(ProtoRespKey(aead))
    ELSE << ProtoRespKey(aead) >>
ProtoOverhead(s) == IF s = SECURITY_NONE THEN 0 ELSE OVERHEAD_LEN

HeaderKinds(aead) ==
    {"good", "bad_v", "dyn_port"} \cup (IF aead THEN {"short", "forged"} ELSE {})

\* [resp_v, option, command, command length]
ServerHeaderBytes(kind, v) ==
    LET b0 == IF kind = "bad_v" THEN 255 - v ELSE v
        b2 == IF kind = "dyn_port" THEN 1 ELSE 0
        h == BCat(BCat(Lit(b0), Lit(0)), Lit(b2))
    IN  IF kind = "short" THEN h ELSE BCat(h, Lit(0))

ServerHeader(kind, aead, v) ==
    LET h == ServerHeaderBytes(kind, v)
        rk == IF kind = "forged" THEN 0 ELSE ProtoRespKey(aead)
        riv == ProtoRespIv(aead)
    IN  IF ~aead THEN aes_cfb_encrypt(rk, riv, h)
        ELSE BCat(aes_gcm_seal(<< vmess_kdf_1_one_shot(rk, KDF_SALT_CONST_AEAD_RESP_HEADER_LEN_KEY) >>,
                               << vmess_kdf_1_one_shot(riv, KDF_SALT_CONST_AEAD_RESP_HEADER_LEN_IV) >>,
                               put_u16(BLen(h))),
                  aes_gcm_seal(<< vmess_kdf_1_one_shot(rk, KDF_SALT_CONST_AEAD_RESP_HEADER_PAYLOAD_KEY) >>,
                               << vmess_kdf_1_one_shot(riv, KDF_SALT_CONST_AEAD_RESP_HEADER_PAYLOAD_IV) >>,
                               h))

\* the chunks the server may send: a plaintext length, or a length field alone
\* that exceeds MAX_CHUNK_SIZE, or (with a cipher) a chunk sealed under the
\* wrong counter
ChunkUnits(s) ==
    {[kind |-> "good", n |-> n] : n \in {0, 3, MAX_CHUNK_SIZE - ProtoOverhead(s)}}
    \cup {[kind |-> "too_large", n |-> n] : n \in {MAX_CHUNK_SIZE + 1, 65535}}
    \cup (IF s = SECURITY_NONE THEN {} ELSE {[kind |-> "corrupt", n |-> 3]})

ServerChunk(u, s, aead, count, sent) ==
    LET pt == Plain(1, sent, sent + u.n)
        c == IF u.kind = "corrupt" THEN count + 1 ELSE count
        body == IF s = SECURITY_NONE THEN pt
                ELSE aes_gcm_seal(ProtoChunkKey(s, aead), << ProtoRespIv(aead), c >>, pt)
    IN  IF u.kind = "too_large" THEN put_u16(u.n)
        ELSE BCat(put_u16(BLen(body)), body)

\* the server sends a response header of one of the kinds
ServerSendHeaderOf(kinds) ==
    /\ pc = "ready"
    /\ ~net_eof
    /\ net_in = << >>
    /\ srv.header = ""
    /\ \E kind \in kinds :
          LET x == ServerHeader(kind, is_aead, resp_v)
          IN  /\ srv' = [srv EXCEPT !.header = kind, !.all = BCat(@, x)]
              /\ net_fly' = BCat(net_fly, x)
    /\ UNCHANGED << urltest_vars, cfg_vars, new_vars, read_vars, write_vars, out_vars, net_in, net_eof,
                    wcaller_vars, rcaller_vars >>

ServerSendHeader == ServerSendHeaderOf(HeaderKinds(is_aead))

\* the server sends one of the units
ServerSendChunkOf(units) ==
    /\ pc = "ready"
    /\ ~net_eof
    /\ net_in = << >>
    /\ srv.header # ""
    /\ srv.chunks < MaxChunks
    /\ \E u \in units :
          LET x == ServerChunk(u, security, is_aead, srv.count, srv.sent)
          IN  /\ srv' = [srv EXCEPT !.chunks = @ + 1,
                                    !.count = IF u.kind = "good" THEN @ + 1 ELSE @,
                                    !.sent = IF u.kind = "good" THEN @ + u.n ELSE @,
                                    !.clean = @ /\ u.kind = "good",
                                    !.all = BCat(@, x)]
              /\ net_fly' = BCat(net_fly, x)
    /\ UNCHANGED << urltest_vars, cfg_vars, new_vars, read_vars, write_vars, out_vars, net_in, net_eof,
                    wcaller_vars, rcaller_vars >>

ServerSendChunk == ServerSendChunkOf(ChunkUnits(security))

\* length fields below the overhead of a cipher
ShortSizes == {0, 1, 15}

\* a server that, against a stream with a cipher, sends a length field below
\* the overhead and that many bytes
ServerSendShort ==
    /\ pc = "ready"
    /\ ~net_eof
    /\ net_in = << >>
    /\ srv.header # ""
    /\ srv.chunks < MaxChunks
    /\ security # SECURITY_NONE
    /\ \E n \in ShortSizes :
          LET x == BCat(put_u16(n), Run(Src("noise", << >>, << >>, << >>, 0), 0, n))
          IN  /\ srv' = [srv EXCEPT !.chunks = @ + 1, !.clean = FALSE,
                                    !.all = BCat(@, x)]
              /\ net_fly' = BCat(net_fly, x)
    /\ UNCHANGED << urltest_vars, cfg_vars, new_vars, read_vars, write_vars, out_vars, net_in, net_eof,
                    wcaller_vars, rcaller_vars >>

\* the connection ends: the bytes still in flight never arrive, which is a
\* server that stopped in the middle of what it was sending
ServerClose ==
    /\ pc = "ready"
    /\ ~net_eof
    /\ net_eof' = TRUE
    /\ net_fly' = << >>
    /\ srv' = [srv EXCEPT !.cut = (net_fly # << >>),
                          !.all = BTake(@, BLen(@) - BLen(net_fly))]
    /\ UNCHANGED << urltest_vars, cfg_vars, new_vars, read_vars, write_vars, out_vars, net_in,
                    wcaller_vars, rcaller_vars >>

\* k of the bytes in flight arrive at the client.  Bytes that arrive while
\* earlier ones wait unread are one larger arrival, so one arrival at a time.
Deliver ==
    /\ net_fly # << >>
    /\ net_in = << >>
    /\ \E k \in IF srv.parts < MaxStalls THEN Accepts(BLen(net_fly)) ELSE {BLen(net_fly)} :
          /\ net_in' = BTake(net_fly, k)
          /\ net_fly' = BDrop(net_fly, k)
          /\ srv' = [srv EXCEPT !.parts = IF k = BLen(net_fly) THEN 0 ELSE @ + 1]
    /\ UNCHANGED << urltest_vars, cfg_vars, new_vars, read_vars, write_vars, out_vars, net_eof,
                    wcaller_vars, rcaller_vars >>

\* buf.remaining() of the buffers the caller reads into
ReadCaps == {1, 3, 20000}

\* a poll_read on a stream that keeps one buffer for both halves
PollReadSharedBuf ==
    /\ pc = "ready"
    /\ \E cap \in ReadCaps :
        \E t \in {poll_read([rs |-> read_state, pos |-> read_pos, buf |-> read_buf,
                             cipher |-> aead_read_cipher, net |-> net_in,
                             eof |-> net_eof /\ net_fly = << >>, out |-> << >>,
                             opened |-> r_log.opened, path |-> << read_state.tag >>,
                             done |-> r_log.done,
                             res |-> NoResult, r |-> ""],
                            is_aead, resp_body_key, resp_body_iv, resp_v, cap)} :
          LET stall == t.res.kind = "ok" /\ t.rs.tag = "StreamFlushingData"
          IN  /\ stall => r_log.stalls < MaxStalls
              /\ t.res.kind = "err" => r_log.errs < MaxStalls
              /\ read_state' = t.rs
              /\ read_pos' = t.pos
              /\ read_buf' = t.buf
              /\ write_buf' = t.buf
              /\ aead_read_cipher' = t.cipher
              /\ net_in' = t.net
              /\ r_got' = BCat(r_got, t.out)
              /\ r_last' = t.res
              /\ r_log' = [stalls |-> IF stall THEN r_log.stalls + 1
                                       ELSE IF t.res.kind = "ok" THEN 0 ELSE r_log.stalls,
                           errs |-> r_log.errs + (IF t.res.kind = "err" THEN 1 ELSE 0),
                           taken |-> r_log.taken + BLen(net_in) - BLen(t.net),
                           done |-> t.done,
                           opened |-> t.opened,
                           path |-> t.path]
    /\ UNCHANGED << urltest_vars, cfg_vars, new_vars, write_state, aead_write_cipher, out_vars, net_fly,
                    net_eof, srv, wcaller_vars >>

PollRead ==
    /\ pc = "ready"
    /\ \E cap \in ReadCaps :
        \E t \in {poll_read([rs |-> read_state, pos |-> read_pos, buf |-> read_buf,
                             cipher |-> aead_read_cipher, net |-> net_in,
                             eof |-> net_eof /\ net_fly = << >>, out |-> << >>,
                             opened |-> r_log.opened, path |-> << read_state.tag >>,
                             done |-> r_log.done,
                             res |-> NoResult, r |-> ""],
                            is_aead, resp_body_key, resp_body_iv, resp_v, cap)} :
          LET stall == t.res.kind = "ok" /\ t.rs.tag = "StreamFlushingData"
          IN  /\ stall => r_log.stalls < MaxStalls
              /\ t.res.kind = "err" => r_log.errs < MaxStalls
              /\ read_state' = t.rs
              /\ read_pos' = t.pos
              /\ read_buf' = t.buf
              /\ aead_read_cipher' = t.cipher
              /\ net_in' = t.net
              /\ r_got' = BCat(r_got, t.out)
              /\ r_last' = t.res
              /\ r_log' = [stalls |-> IF stall THEN r_log.stalls + 1
                                       ELSE IF t.res.kind = "ok" THEN 0 ELSE r_log.stalls,
                           errs |-> r_log.errs + (IF t.res.kind = "err" THEN 1 ELSE 0),
                           taken |-> r_log.taken + BLen(net_in) - BLen(t.net),
                           done |-> t.done,
                           opened |-> t.opened,
                           path |-> t.path]
    /\ UNCHANGED << urltest_vars, cfg_vars, new_vars, write_vars, out_vars, net_fly, net_eof, srv,
                    wcaller_vars >>

NextNew == New \/ HsWrite \/ HsWriteFail \/ HsFlush \/ HsFlushFail
NextWrite == NextNew \/ PollWrite \/ PollFlush \/ PollShutdown

SpecWrite == Init /\ [][NextWrite]_vars
NextRead ==
    NextNew \/ ServerSendHeader \/ ServerSendChunk \/ ServerClose \/ Deliver \/ PollRead

SpecRead == Init /\ [][NextRead]_vars

\* the write half under a caller that passes any buffer
NextRewrite == NextNew \/ PollWriteFree \/ PollFlush \/ PollShutdown

SpecRewrite == Init /\ [][NextRewrite]_vars

\* the read half against a server that sends a valid header, sound chunks
\* and chunks shorter than a tag
NextShort ==
    \/ NextNew
    \/ ServerSendHeaderOf({"good"})
    \/ ServerSendChunkOf({[kind |-> "good", n |-> n] :
                             n \in {0, 3, MAX_CHUNK_SIZE - ProtoOverhead(security)}})
    \/ ServerSendShort
    \/ ServerClose
    \/ Deliver
    \/ PollRead

SpecShort == Init /\ [][NextShort]_vars

Next ==
    \/ NextWrite \/ PollWriteFree \/ PollWritePanic \/ NextRead \/ ServerSendShort
    \/ NextUrlTest

Spec == Init /\ [][Next]_vars

\* both halves at work at once, in any interleaving: one-byte writes against
\* a server that sends a valid header and three-byte chunks and does not close
NextDuplex ==
    \/ NextNew
    \/ PollWriteOf({1})
    \/ PollFlush
    \/ PollShutdown
    \/ ServerSendHeaderOf({"good"})
    \/ ServerSendChunkOf({[kind |-> "good", n |-> 3]})
    \/ Deliver
    \/ PollRead

SpecDuplex == Init /\ [][NextDuplex]_vars

\* a stream late in a long session: new() has returned, the server is silent,
\* and the caller has written k bytes one at a time, each acknowledged and
\* flushed, so that k chunks of 19 bytes are on the wire behind the handshake
\* (their bytes are not spelled out) and the write counter is at k
ChunksBefore == {65534, 65535}
InitOverflow ==
    /\ Handler_new(0)
    /\ security \in {SECURITY_AES_128_GCM, SECURITY_CHACHA20_POLY1305}
    /\ is_aead \in BOOLEAN
    /\ resp_v \in RespVs
    /\ pad \in Paddings
    /\ pc = "ready"
    /\ new_err = ""
    /\ resp_body_key = new_resp_body_key(is_aead)
    /\ resp_body_iv = new_resp_body_iv(is_aead)
    /\ aead_read_cipher = new_read_cipher(security, is_aead)
    /\ hs_out = << >>
    /\ read_state = ReadState("AeadWaitingHeaderSize", 0)
    /\ read_pos = 0
    /\ read_buf = << >>
    /\ write_state = BuildingData
    /\ write_buf = << >>
    /\ t_dirty = FALSE
    /\ t_shutdown = FALSE
    /\ net_fly = << >>
    /\ net_in = << >>
    /\ net_eof = FALSE
    /\ srv = [header |-> "", chunks |-> 0, count |-> 0, sent |-> 0, clean |-> TRUE,
              cut |-> FALSE, parts |-> 0, all |-> << >>]
    /\ \E k \in ChunksBefore :
          /\ aead_write_cipher = [new_write_cipher(security) EXCEPT !.count = k]
          /\ wire = BCat(Handshake(is_aead, pad),
                         Run(Src("elided", << >>, << >>, << >>, 0), 0, 19 * k))
          /\ w_lo = k - 1
          /\ w_goal = k
          /\ w_acked = k
    /\ w_open = FALSE
    /\ w_last = Ready(1)
    /\ w_log = [hs_parts |-> 0, chunks |-> 0, stalls |-> 0, fin |-> "", acks |-> << >>,
                built |-> 0, cur |-> 0, pended |-> FALSE]
    /\ r_got = << >>
    /\ r_last = NoResult
    /\ r_log = [stalls |-> 0, errs |-> 0, taken |-> 0, done |-> 0, opened |-> << >>,
             path |-> << >>]

NextOverflow == PollWriteOf({1}) \/ PollWritePanic \/ PollFlush \/ PollShutdown

SpecOverflow == InitOverflow /\ [][NextOverflow]_vars

(***************************************************************************)
(* The wire as the peer reads it: after the handshake, frames of a 2-byte  *)
(* length and a body, the k-th body sealed under the request key and       *)
(* counter k.                                                              *)
(***************************************************************************)
PeerOpen(body, k) ==
    IF security = SECURITY_NONE THEN [ok |-> TRUE, pt |-> body]
    ELSE aes_gcm_open(IF security = SECURITY_CHACHA20_POLY1305
                      THEN ChaChaKey(req_body_key) ELSE << req_body_key >>,
                      << req_body_iv, k >>, body)

\* [ok, pts, lens, tail]: the plaintexts and length fields of the complete
\* frames x starts with, and the incomplete frame after them
RECURSIVE Frames(_, _)
Frames(x, k) ==
    IF BLen(x) < 2 THEN [ok |-> TRUE, pts |-> << >>, lens |-> << >>, tail |-> x]
    ELSE LET len == u16_from_be_bytes(BTake(x, 2))
             o == PeerOpen(BTake(BDrop(x, 2), len), k)
             f == Frames(BDrop(x, 2 + len), k + 1)
         IN  IF BLen(x) < 2 + len
             THEN [ok |-> TRUE, pts |-> << >>, lens |-> << >>, tail |-> x]
             ELSE IF ~o.ok
             THEN [ok |-> FALSE, pts |-> << >>, lens |-> << >>, tail |-> x]
             ELSE [ok |-> f.ok, pts |-> << o.pt >> \o f.pts,
                   lens |-> << len >> \o f.lens, tail |-> f.tail]

RECURSIVE Concat(_)
Concat(ps) == IF ps = << >> THEN << >> ELSE BCat(ps[1], Concat(Tail(ps)))

WireFrames == Frames(BDrop(wire, HandshakeLen(is_aead, pad)), 0)

\* C1: write ordering.  With a caller that polls again with the same buffer
\* until the write resolves and then writes the remainder, the bytes the
\* transport took after the handshake are complete chunks, in order, whose
\* plaintexts concatenated are the caller's bytes acknowledged so far; the
\* bytes of a chunk still being flushed, with those left in write_buf, are the
\* one chunk of the next bytes of the caller.
C1_WriteOrdering ==
    pc = "ready" =>
        /\ WireFrames.ok
        /\ Concat(WireFrames.pts) = Plain(0, 0, w_acked)
        /\ IF write_state.tag = "BuildingData"
           THEN WireFrames.tail = << >> /\ write_buf = << >>
           ELSE LET f == Frames(BCat(WireFrames.tail, write_buf), Len(WireFrames.pts))
                IN  /\ f.ok /\ f.tail = << >> /\ Len(f.pts) = 1
                    /\ f.pts[1] = Plain(0, w_acked, w_acked + write_state.consumed)
                    /\ w_acked + write_state.consumed <= w_goal

\* a 20000-byte write went out as two chunks, one of them in several parts
C1_Witness ==
    /\ pc = "ready"
    /\ w_acked = 20000
    /\ Len(WireFrames.pts) = 2
    /\ w_log.stalls > 0
    /\ write_state.tag = "BuildingData"

\* the part of an opened chunk the caller has still to take
Undrained ==
    IF read_state.tag = "StreamFlushingData" THEN BTake(read_buf, read_state.n) ELSE << >>

\* nothing is on its way and poll_read stands between two chunks
AllRead ==
    /\ ~srv.cut /\ net_fly = << >> /\ net_in = << >>
    /\ read_state.tag = "StreamWaitingLength" /\ read_pos = 0

\* C2: read ordering.  After a valid response header and with well-formed
\* chunks only, however the transport fragments them and whatever the caller's
\* capacities, the bytes poll_read gave the caller, followed by the part of the
\* opened chunk not yet drained, are the server's plaintext from its first byte,
\* in order and without gap or repeat; once every chunk that the read cipher
\* opens has been read, they are all of it.
C2_ReadOrdering ==
    (srv.header = "good" /\ srv.clean) =>
        /\ BCat(r_got, Undrained) = Plain(1, 0, BLen(r_got) + BLen(Undrained))
        /\ BLen(r_got) + BLen(Undrained) <= srv.sent
        /\ (AllRead /\ aead_read_cipher.key = (IF aead_read_cipher.present
                                                THEN ProtoChunkKey(security, is_aead)
                                                ELSE << >>))
              => r_got = Plain(1, 0, srv.sent)

\* two sealed chunks arrived; the caller has the first and a part of the second
C2_Witness ==
    /\ srv.header = "good" /\ srv.clean /\ srv.chunks = 2
    /\ aead_read_cipher.present
    /\ read_state.tag = "StreamFlushingData"
    /\ r_log.stalls > 0
    /\ BLen(r_got) > 3

RECURSIVE Sum(_)
Sum(q) == IF q = << >> THEN 0 ELSE q[1] + Sum(Tail(q))

\* every frame built so far: those on the wire and the part still in write_buf
BuiltFrames == Frames(BCat(BDrop(wire, HandshakeLen(is_aead, pad)), write_buf), 0)

\* C3: chunking.  The counts the resolving poll_write calls returned sum to the
\* bytes of the caller written so far, and to all the caller's bytes once a
\* write is complete; every frame built carries a big-endian length field equal
\* to the plaintext it took plus the overhead (0 without a cipher, 16 with
\* either AEAD), at most 16384, followed by exactly that many bytes; the k-th
\* count is the plaintext taken by the k-th frame.
C3_Chunking ==
    pc = "ready" =>
        /\ Sum(w_log.acks) = w_acked
        /\ w_acked <= w_goal
        /\ BuiltFrames.ok /\ BuiltFrames.tail = << >>
        /\ Len(BuiltFrames.pts) =
              Len(w_log.acks) + (IF write_state.tag = "FlushingData" THEN 1 ELSE 0)
        /\ \A i \in 1..Len(BuiltFrames.pts) :
              /\ BuiltFrames.lens[i] =
                    BLen(BuiltFrames.pts[i]) + (IF security = SECURITY_NONE THEN 0 ELSE 16)
              /\ BuiltFrames.lens[i] <= 16384
              /\ i <= Len(w_log.acks) => w_log.acks[i] = BLen(BuiltFrames.pts[i])
        /\ (write_state.tag = "FlushingData"
              => write_state.consumed = BLen(BuiltFrames.pts[Len(BuiltFrames.pts)]))

\* 20000 bytes written to completion under an AEAD cipher: 16368, then 3632
C3_Witness ==
    /\ pc = "ready"
    /\ security # SECURITY_NONE
    /\ ~w_open /\ w_goal = 20000 /\ w_acked = w_goal
    /\ w_log.acks = << 16368, 3632 >>
    /\ BuiltFrames.lens = << 16384, 3648 >>

\* C4: the handshake is sent exactly once and first.  Until new() returns the
\* stream, the wire holds a prefix of the wrapped header and the caller has
\* done no I/O; the stream exists only with the whole wrapped header written
\* and flushed: the wire starts with it, whatever follows is no handshake byte,
\* and unflushed bytes are chunk bytes, after any read, write, flush or
\* shutdown; a failed write or flush leaves the error and no stream.
C4_HandshakeOnceFirst ==
    LET hs == Handshake(is_aead, pad)
        rest == BDrop(wire, BLen(hs))
    IN  /\ pc = "start" => wire = << >>
        /\ pc = "hs_write" => BCat(wire, hs_out) = hs /\ hs_out # << >>
        /\ pc = "hs_flush" => wire = hs
        /\ pc # "ready" =>
              /\ wire = BTake(hs, BLen(wire))
              /\ w_last = NoResult /\ r_last = NoResult
              /\ w_acked = 0 /\ r_got = << >>
              /\ ~t_shutdown
        /\ pc = "failed" => new_err # ""
        /\ pc = "ready" =>
              /\ new_err = ""
              /\ BTake(wire, BLen(hs)) = hs
              /\ \A i \in 1..Len(rest) : rest[i].src.kind # "handshake"
              /\ t_dirty => rest # << >>

\* the stream has read, written, flushed and shut down
C4_Witness ==
    /\ pc = "ready"
    /\ w_acked > 0 /\ ~t_dirty /\ t_shutdown
    /\ r_got # << >>

(***************************************************************************)
(* What poll_read has taken from the transport.                            *)
(***************************************************************************)
\* the bytes read from the transport so far
Consumed == BTake(srv.all, r_log.taken)
\* the last two bytes of x, as a length field
LastLen(x) == IF BLen(x) < 2 THEN 0 ELSE u16_from_be_bytes(BDrop(x, BLen(x) - 2))
\* the response header is being read
HeaderStates == {"AeadWaitingHeaderSize", "AeadWaitingHeader"}
\* the bytes of the response header on the wire
HeaderWireLen == BLen(ServerHeader(srv.header, is_aead, resp_v))
\* the n of the poll_read_exact(n) the read state calls
Need(rs) ==
    CASE rs.tag = "AeadWaitingHeaderSize" -> IF is_aead THEN 18 ELSE 4
      [] rs.tag = "AeadWaitingHeader" -> rs.n + 16
      [] rs.tag = "StreamWaitingLength" -> 2
      [] rs.tag = "StreamWaitingData" -> rs.n
      [] OTHER -> 0

\* C5: read errors are fatal.  Once a poll_read has returned an error, no
\* later poll_read succeeds or gives the caller a byte, whatever the
\* transport supplies.
C5_ReadErrorsFatal ==
    [][r_log.errs > 0 => (r_got' = r_got /\ r_last'.kind # "ok")]_vars

\* C6: max-chunk enforcement.  A poll_read that fails with "chunk size too
\* large" has just read a length field above 16384 and nothing after it, has
\* left the read cipher (its counter) as it was, stays in StreamWaitingLength
\* and gives the caller nothing; no length above 16384 is ever accepted as a
\* chunk size, and a length of 16384 or less never fails this way.
C6_MaxChunk ==
    [][/\ (r_log'.errs > r_log.errs /\ r_last'.err = "InvalidData: chunk size too large")
           => /\ \A c \in {Consumed'} : \A len \in {LastLen(c)} : len > 16384
              /\ aead_read_cipher' = aead_read_cipher
              /\ read_state.tag \in HeaderStates \cup {"StreamWaitingLength"}
              /\ read_state'.tag = "StreamWaitingLength"
              /\ read_pos' = 0
              /\ r_got' = r_got
       /\ (read_state.tag = "StreamWaitingLength" /\ read_state'.tag = "StreamWaitingLength"
            /\ r_log'.taken = r_log.taken + 2 - read_pos)
           => \A c \in {Consumed'} : \A len \in {LastLen(c)} :
                 len > 16384 => r_last'.err = "InvalidData: chunk size too large"
       /\ (read_state'.tag \in {"StreamWaitingData", "StreamFlushingData"}
           => read_state'.n <= 16384)
      ]_vars

\* a chunk of 16384 bytes on the wire was accepted and read, and the next
\* length field was refused
C6_Witness ==
    /\ r_last.err = "InvalidData: chunk size too large"
    /\ srv.chunks = 2
    /\ BLen(r_got) >= 16384 - 16
    /\ aead_read_cipher.count = (IF aead_read_cipher.present THEN 1 ELSE 0)

\* C7: resp_v enforcement.  In legacy and in AEAD mode, the poll_read that
\* takes the last byte of a response header whose byte 0 is not resp_v returns
\* InvalidData; whenever poll_read returns that error, read_state is still one
\* of the header states and the caller has no payload byte.
C7_RespV ==
    [][/\ (srv.header = "bad_v" /\ r_log.taken < HeaderWireLen
            /\ r_log'.taken >= HeaderWireLen)
           => /\ r_last' = Failed("InvalidData: invalid resp_v")
              /\ r_log'.taken = HeaderWireLen
       /\ r_last'.err = "InvalidData: invalid resp_v"
           => /\ read_state'.tag \in HeaderStates
              /\ read_state'.tag # "StreamWaitingLength"
              /\ r_got' = << >>
      ]_vars

\* a legacy response header with a wrong first byte was refused
C7_Witness ==
    /\ ~is_aead
    /\ srv.header = "bad_v"
    /\ r_last = Failed("InvalidData: invalid resp_v")
    /\ r_log.taken = 4

\* C8: dynamic port rejection.  In legacy and in AEAD mode, the poll_read
\* that takes the last byte of a response header whose byte 0 is resp_v and
\* whose byte 2 is not zero returns InvalidData(dynamic port not supported);
\* whenever poll_read returns that error, read_state is still one of the
\* header states and the caller has no payload byte.
C8_DynamicPort ==
    [][/\ (srv.header = "dyn_port" /\ r_log.taken < HeaderWireLen
            /\ r_log'.taken >= HeaderWireLen)
           => /\ r_last' = Failed("InvalidData: dynamic port not supported")
              /\ r_log'.taken = HeaderWireLen
       /\ r_last'.err = "InvalidData: dynamic port not supported"
           => /\ read_state'.tag \in HeaderStates
              /\ read_state'.tag # "StreamWaitingLength"
              /\ r_got' = << >>
      ]_vars

\* a sealed response header that asks for a dynamic port was refused
C8_Witness ==
    /\ is_aead
    /\ srv.header = "dyn_port"
    /\ r_last = Failed("InvalidData: dynamic port not supported")
    /\ read_state.tag = "AeadWaitingHeader"
    /\ r_log.taken = HeaderWireLen

\* the transport is at its end: a read of it fills no byte
AtEof == net_eof /\ net_fly = << >>

\* C9: UnexpectedEof.  With the transport at its end no poll_read ends
\* Pending; one that finds fewer bytes than its poll_read_exact(n) needs, in
\* whatever read state, returns UnexpectedEof; and a poll_read that returns
\* UnexpectedEof has taken what had arrived, holds fewer than n bytes of the
\* unit and has given the caller none.
C9_UnexpectedEof ==
    [][AtEof =>
        /\ r_last'.kind # "pending"
        /\ (read_state.tag # "StreamFlushingData"
            /\ read_pos + BLen(net_in) < Need(read_state))
           => /\ r_last' = Failed("UnexpectedEof")
              /\ read_state' = read_state
        /\ r_last'.err = "UnexpectedEof"
           => /\ r_got' = r_got
              /\ net_in' = << >>
              /\ read_state'.tag # "StreamFlushingData"
              /\ read_pos' < Need(read_state')
              /\ read_pos' <= read_pos + BLen(net_in)
      ]_vars

\* the stream ended in the middle of a chunk body
C9_Witness ==
    /\ AtEof
    /\ r_last = Failed("UnexpectedEof")
    /\ read_state.tag = "StreamWaitingData"
    /\ read_pos > 0

\* C10: nonce monotonicity.  With an AEAD cipher, the write counter is the
\* number of chunks poll_write has built and the k-th frame (k from 0) is
\* sealed under counter k; the read counter is the number of chunk bodies
\* opened and the k-th opens under counter k: the counters start at 0 and move
\* by one per chunk, and nothing else moves them (a Pending poll, a partial
\* flush, the parsing of the header, the draining of a chunk).
C10_NonceMonotonic ==
    /\ aead_write_cipher.present =>
          /\ BuiltFrames.ok /\ BuiltFrames.tail = << >>
          /\ aead_write_cipher.count = Len(BuiltFrames.pts)
          /\ aead_write_cipher.count = w_log.chunks
    /\ aead_read_cipher.present =>
          /\ BCat(r_got, Undrained) = Plain(1, 0, 3 * aead_read_cipher.count)
          /\ aead_read_cipher.count <= srv.count
          /\ read_state.tag \in HeaderStates => aead_read_cipher.count = 0
          /\ (AllRead /\ aead_read_cipher.key = ProtoChunkKey(security, is_aead))
                => aead_read_cipher.count = srv.count
    /\ ~aead_write_cipher.present => aead_write_cipher.count = 0
    /\ ~aead_read_cipher.present => aead_read_cipher.count = 0

\* two chunks each way, with a stalled write and a chunk drained in parts
C10_Witness ==
    /\ aead_write_cipher.present /\ aead_write_cipher.count = 2
    /\ aead_read_cipher.present /\ aead_read_cipher.count = 2
    /\ w_log.stalls > 0
    /\ r_log.stalls > 0
    /\ write_state.tag = "FlushingData" /\ write_state.written > 0

(***************************************************************************)
(* The chunk counter at its last value.                                    *)
(***************************************************************************)
\* the chunks built in the session, with one-byte writes: one per byte
\* acknowledged, and the one being flushed
ChunksBuilt == w_acked + (IF write_state.tag = "FlushingData" THEN 1 ELSE 0)
\* the counter in the nonce of the chunk built last
LastNonce ==
    LET x == BCat(wire, write_buf) IN x[Len(x)].src.nonce[2]

\* C11: nonce overflow.  With an AEAD cipher a stream builds no more than
\* 2^16 chunks: the chunk built last is chunk number ChunksBuilt - 1 and is
\* sealed under that number as its counter, so no counter is used twice with
\* one key.
C11_NonceOverflow ==
    (pc = "ready" /\ w_log.chunks > 0) =>
        /\ ChunksBuilt <= 65536
        /\ LastNonce = ChunksBuilt - 1

(***************************************************************************)
(* Construction with a security kind outside the supported set.            *)
(***************************************************************************)
\* C12: cipher selection.  new() called with a security kind outside the
\* supported set fails with an error of kind Unsupported, returns no stream
\* and writes no byte to the transport.
C12_CipherSelection ==
    ~Supported(security) =>
        /\ pc \in {"start", "failed"}
        /\ wire = << >> /\ hs_out = << >>
        /\ pc = "failed" => new_err = "Unsupported"

(***************************************************************************)
(* A write of 20000 bytes under ChaCha20-Poly1305 in AEAD mode.            *)
(***************************************************************************)
\* the caller's first buffer that holds a byte is one of 20000 bytes, and no
\* empty write came before it
Scenario3 ==
    /\ security = SECURITY_CHACHA20_POLY1305 /\ is_aead
    /\ pc = "ready"
    /\ w_goal = 20000
    /\ (w_log.acks = << >> \/ w_log.acks[1] > 0)

\* the write is complete when the plaintexts taken are of n1 and n2 bytes:
\* the frames built, however far they are flushed, open under the write key
\* and the counters 0, 1, ... in order; the first takes bytes 0..n1-1, the
\* second the n2 bytes after them, a later one (of an empty write) none; and
\* once all 20000 bytes are acknowledged the counts returned were n1 and n2
TwoChunks(n1, n2) ==
    /\ BuiltFrames.ok /\ BuiltFrames.tail = << >>
    /\ \A i \in 1..Len(BuiltFrames.pts) :
          BuiltFrames.pts[i] = (CASE i = 1 -> Plain(0, 0, n1)
                                  [] i = 2 -> Plain(0, n1, n1 + n2)
                                  [] OTHER -> << >>)
    /\ aead_write_cipher.count = Len(BuiltFrames.pts)
    /\ w_acked = 20000 =>
          /\ Len(w_log.acks) >= 2
          /\ w_log.acks[1] = n1 /\ w_log.acks[2] = n2
          /\ n1 + n2 = 20000

\* C13 (as stated): the 20000 bytes go out as two chunks with plaintexts of
\* 16384 and 3616 bytes, under the counters 0 and 1.
C13_Scenario3_AsStated == Scenario3 => TwoChunks(16384, 3616)

\* C13 (amended): the 20000 bytes go out as two chunks with plaintexts of
\* 16368 and 3632 bytes (length fields 16384 and 3648), under the counters 0
\* and 1.
C13_Scenario3 == Scenario3 => TwoChunks(16368, 3632)

\* the write is complete, two chunks are on the wire
C13_Witness ==
    /\ Scenario3
    /\ w_acked = 20000 /\ ~w_open
    /\ write_state.tag = "BuildingData"
    /\ Len(WireFrames.pts) = 2
    /\ WireFrames.lens = << 16384, 3648 >>

(***************************************************************************)
(* What a poll_read that returns Ready(Ok) has given the caller.           *)
(***************************************************************************)
\* C14: read progress.  A poll_read that returns Ready(Ok) to a caller whose
\* buffer has room, with the transport not at its end, has put at least one
\* byte into the buffer; a chunk with an empty plaintext does not make it
\* return Ready(Ok) with no byte.
C14_ReadProgress ==
    [][(/\ r_last'.kind = "ok"
        /\ (r_log'.taken # r_log.taken \/ read_state' # read_state)
        /\ ~AtEof)
          => r_got' # r_got]_vars

(***************************************************************************)
(* The keys of the ChaCha20-Poly1305 ciphers.                              *)
(***************************************************************************)
\* C15: ChaCha20 key expansion.  With ChaCha20-Poly1305 the write cipher's
\* key is MD5(req_body_key) || MD5(MD5(req_body_key)) and the read cipher's
\* key is the same expansion of resp_body_key.
C15_ChaChaKeys ==
    (security = SECURITY_CHACHA20_POLY1305 /\ pc \notin {"start", "failed"}) =>
        /\ aead_write_cipher.key = ChaChaKey(req_body_key)
        /\ aead_read_cipher.key = ChaChaKey(resp_body_key)

(***************************************************************************)
(* The two halves at work on one stream.                                   *)
(***************************************************************************)
\* a poll_read has run; a poll_write has run
ReadStep == rcaller_vars' # rcaller_vars \/ read_vars' # read_vars
WriteStep == wcaller_vars' # wcaller_vars \/ write_vars' # write_vars

\* what a step of one half leaves alone
HalvesFrame ==
    /\ (pc = "ready" /\ ReadStep) =>
          /\ UNCHANGED << urltest_vars, cfg_vars, new_vars, write_vars, out_vars, wcaller_vars >>
          /\ aead_read_cipher' = [aead_read_cipher EXCEPT !.count = aead_read_cipher'.count]
    /\ (pc = "ready" /\ WriteStep) =>
          /\ UNCHANGED << urltest_vars, cfg_vars, new_vars, read_vars, in_vars, rcaller_vars >>
          /\ aead_write_cipher' = [aead_write_cipher EXCEPT !.count = aead_write_cipher'.count]

\* what each direction alone gives: one-byte writes give the frames of bytes
\* 0, 1, ... of the caller, one per chunk built, whatever has been read; and
\* the reads give the server's plaintext from its first byte, whatever has
\* been written
HalvesAlone ==
    pc = "ready" =>
        /\ BuiltFrames.ok /\ BuiltFrames.tail = << >>
        /\ Len(BuiltFrames.pts) = w_log.chunks
        /\ \A i \in 1..Len(BuiltFrames.pts) : BuiltFrames.pts[i] = Plain(0, i - 1, i)
        /\ WireFrames.ok /\ Concat(WireFrames.pts) = Plain(0, 0, w_acked)
        /\ BCat(r_got, Undrained) = Plain(1, 0, BLen(r_got) + BLen(Undrained))
        /\ r_log.opened = BCat(r_got, Undrained)
        /\ BLen(r_log.opened) = 3 * (IF aead_read_cipher.present
                                      THEN aead_read_cipher.count
                                      ELSE BLen(r_log.opened) \div 3)

\* C16: independent halves.  On a stream in use, a poll_read changes only
\* read_state, read_pos, read_buf and the read cipher's counter (and takes
\* bytes from the transport, gives bytes to its caller), a poll_write only
\* write_state, write_buf and the write cipher's counter (and gives bytes to
\* the transport); in any interleaving of the two, the bytes on the wire and
\* the bytes given to the caller are those of each direction run alone.
C16_IndependentHalves == []HalvesAlone /\ [][HalvesFrame]_vars

\* both halves are in the middle of a chunk at once
C16_Witness ==
    /\ pc = "ready"
    /\ write_state.tag = "FlushingData" /\ write_state.written > 0
    /\ read_state.tag = "StreamFlushingData"
    /\ w_acked > 0 /\ r_got # << >>
    /\ read_buf # << >> /\ write_buf # << >>

(***************************************************************************)
(* A transport that takes no byte.                                         *)
(***************************************************************************)
\* C17: WriteZero.  A poll_write in which the transport answers Ok(0) while
\* bytes of the chunk are left returns WriteZero, acknowledges no byte of the
\* caller, and stays in FlushingData with the chunk's plaintext count and
\* the bytes not yet written kept; and WriteZero is returned in no other case.
C17_WriteZero ==
    [][(pc = "ready" /\ WriteStep) =>
         /\ w_log'.fin = "zero" =>
               /\ w_last' = Failed("WriteZero")
               /\ w_acked' = w_acked
               /\ write_state'.tag = "FlushingData"
               /\ write_state'.written < write_state'.total
               /\ BLen(write_buf') = write_state'.total - write_state'.written
               /\ write_state.tag = "FlushingData" =>
                     /\ write_state'.consumed = write_state.consumed
                     /\ write_state'.total = write_state.total
                     /\ BCat(BDrop(wire', BLen(wire)), write_buf') = write_buf
         /\ w_last'.err = "WriteZero" => w_log'.fin = "zero"
      ]_vars

\* the transport took a part of a chunk, then no byte
C17_Witness ==
    /\ pc = "ready"
    /\ w_last = Failed("WriteZero")
    /\ write_state.tag = "FlushingData"
    /\ write_state.written > 0
    /\ w_acked = 0

(***************************************************************************)
(* The order of the read states.                                           *)
(***************************************************************************)
StreamStates == {"StreamWaitingLength", "StreamWaitingData", "StreamFlushingData"}
\* the changes of read state the order allows
Allowed(aead) ==
    (IF aead
     THEN {<< "AeadWaitingHeaderSize", "AeadWaitingHeader" >>,
           << "AeadWaitingHeader", "StreamWaitingLength" >>}
     ELSE {<< "AeadWaitingHeaderSize", "StreamWaitingLength" >>})
    \cup {<< "StreamWaitingLength", "StreamWaitingData" >>,
          << "StreamWaitingData", "StreamFlushingData" >>,
          << "StreamFlushingData", "StreamWaitingLength" >>}

\* what the order says of a state
OrderInState ==
    /\ (pc # "ready" \/ r_last = NoResult)
          => read_state = ReadState("AeadWaitingHeaderSize", 0)
    /\ \A i \in 1..(Len(r_log.path) - 1) :
          << r_log.path[i], r_log.path[i + 1] >> \in Allowed(is_aead)
    /\ ~is_aead => read_state.tag # "AeadWaitingHeader"
    /\ read_state.tag \in HeaderStates => (r_got = << >> /\ r_log.opened = << >>)
    /\ (read_state.tag \in StreamStates /\ r_log.errs = 0) => srv.header = "good"

\* what the order says of a step
OrderInStep ==
    /\ read_state.tag \in StreamStates => read_state'.tag \in StreamStates
    /\ (pc = "ready" /\ ReadStep) =>
          /\ r_log'.path[1] = read_state.tag
          /\ r_log'.path[Len(r_log'.path)] = read_state'.tag

\* C18: read state machine order.  read_state starts at
\* AeadWaitingHeaderSize; every change of read state inside any poll_read is
\* one of: AeadWaitingHeaderSize -> StreamWaitingLength in legacy mode,
\* AeadWaitingHeaderSize -> AeadWaitingHeader -> StreamWaitingLength in AEAD
\* mode, then StreamWaitingLength -> StreamWaitingData -> StreamFlushingData
\* -> StreamWaitingLength; legacy mode is never in AeadWaitingHeader; a
\* stream state is never followed by a header state, so a header is accepted
\* once; the caller has no byte while the state is a header state; and the
\* header accepted by a stream that has refused nothing is the server's, with
\* byte 0 = resp_v and byte 2 = 0.
C18_ReadStateOrder == []OrderInState /\ [][OrderInStep]_vars

\* in AEAD mode one poll_read went through the header and a whole chunk
C18_Witness ==
    /\ is_aead
    /\ r_log.path = << "AeadWaitingHeaderSize", "AeadWaitingHeader", "StreamWaitingLength",
                       "StreamWaitingData", "StreamFlushingData", "StreamWaitingLength" >>
    /\ r_got # << >>
    /\ srv.chunks = 2

(***************************************************************************)
(* poll_read_exact.                                                        *)
(***************************************************************************)
\* what exactness says of a state, between poll_read calls
ExactInState ==
    /\ r_last.err # "panic" /\ r_last.err # "decryption failed: panic"
    /\ read_pos >= 0
    /\ read_pos = 0 \/ read_pos < Need(read_state)
    /\ read_state.tag = "StreamFlushingData" => read_pos = 0
    /\ r_log.taken = r_log.done + read_pos
    /\ \A c \in {Consumed} : BTake(read_buf, read_pos) = BDrop(c, r_log.done)
    /\ (read_state.tag = "StreamWaitingData" /\ read_state.n = 0)
          => r_last.err = "decryption failed"

\* what exactness says of a poll_read
ExactInStep ==
    (pc = "ready" /\ ReadStep) =>
        /\ r_log'.done > r_log.done => r_log'.done - r_log.done >= Need(read_state)
        /\ (r_log'.done = r_log.done /\ read_state.tag # "StreamFlushingData") =>
              /\ read_pos' >= read_pos
              /\ read_state' = read_state
              /\ r_last'.kind # "ok"
        /\ r_last'.kind = "pending" => (net_in' = << >> /\ ~AtEof)

\* C19: poll_read_exact(n) exactness.  Across Pending returns and partial
\* reads of the transport, read_pos never exceeds n and the assertion never
\* fails; the bytes gathered before a Pending stay in read_buf; the bytes
\* taken from the transport are always those of the completed calls, n for
\* each, plus the read_pos bytes of the call under way, so a call completes
\* with exactly n bytes taken, none more, and read_pos = 0; a call for 0
\* bytes completes without the transport.
C19_ReadExact == []ExactInState /\ [][ExactInStep]_vars

\* a chunk body arrived in three parts, with Pending in between
C19_Witness ==
    /\ read_state.tag = "StreamFlushingData"
    /\ r_log.path = << "StreamWaitingData", "StreamFlushingData" >>
    /\ srv.parts = 0 /\ srv.chunks = 1
    /\ r_log.errs = 0
    /\ r_log.taken = BLen(srv.all)
    /\ r_log.done = r_log.taken
    /\ BLen(r_got) = 1

(***************************************************************************)
(* write_buf and write_state.                                              *)
(***************************************************************************)
\* the frame being flushed: the part of it on the wire, then write_buf
FrameInFlush(t) == Frames(BCat(t, write_buf), Len(WireFrames.pts))

\* write_buf against write_state, and the wire against both
WriteBufInState ==
    /\ write_state.tag = "BuildingData" => write_buf = << >>
    /\ write_state.tag = "FlushingData" =>
          /\ write_state.written >= 0
          /\ write_state.written < write_state.total
          /\ BLen(write_buf) = write_state.total - write_state.written
    /\ pc = "ready" =>
          /\ WireFrames.ok
          /\ Len(WireFrames.pts) =
                w_log.chunks - (IF write_state.tag = "FlushingData" THEN 1 ELSE 0)
          /\ write_state.tag = "BuildingData" => WireFrames.tail = << >>
          /\ write_state.tag = "FlushingData" =>
                \A t \in {WireFrames.tail} :
                   /\ BLen(t) = write_state.written
                   /\ \A f \in {FrameInFlush(t)} :
                         /\ f.ok /\ Len(f.pts) = 1 /\ f.tail = << >>
                         /\ f.lens[1] + 2 = write_state.total
                         /\ BLen(f.pts[1]) = write_state.consumed

\* a poll_write that builds a chunk starts from an empty write_buf
WriteBufInStep ==
    (pc = "ready" /\ w_log'.chunks > w_log.chunks) =>
        /\ write_state.tag = "BuildingData"
        /\ write_buf = << >>
        /\ w_log'.chunks = w_log.chunks + 1

\* C20: write buffer invariant.  Between poll_write calls write_buf is empty
\* while write_state is BuildingData, and while it is FlushingData(consumed,
\* (total, written)) write_buf holds the total - written bytes of the frame the
\* transport has not taken, with written < total; a chunk is built only once
\* the transport took every byte of the frame before, so the wire is whole
\* frames in the order built, followed by the first written bytes of the
\* frame being flushed.
C20_WriteBuf == []WriteBufInState /\ [][WriteBufInStep]_vars

\* the second frame is partly on the wire, the first one wholly
C20_Witness ==
    /\ pc = "ready"
    /\ write_state.tag = "FlushingData"
    /\ write_state.written > 0
    /\ w_log.chunks = 2
    /\ Len(WireFrames.pts) = 1
    /\ BLen(WireFrames.tail) = write_state.written
    /\ BLen(write_buf) > 0

(***************************************************************************)
(* The count poll_write returns for a chunk built in an earlier call.      *)
(***************************************************************************)
\* a poll_write has resolved with a count
Resolves == pc = "ready" /\ Len(w_log'.acks) > Len(w_log.acks)

\* the count a resolving poll_write returns is the plaintext count recorded
\* when the chunk was built, whatever buffer this call was given
CountOfBuild ==
    Resolves =>
        /\ w_last'.kind = "ok"
        /\ write_state.tag = "FlushingData" => w_last'.n = write_state.consumed
        /\ write_state.tag = "BuildingData" =>
              w_last'.n = Min(w_log'.cur, CHUNK_SIZE - overhead_len(aead_write_cipher))
        /\ w_last'.n <= w_log'.built
        /\ w_log'.built > 0 => w_last'.n >= 1

\* the count exceeds the buffer of the call that returns it only in a call
\* that came with a shorter buffer than the build's after a Pending
LongCountAfterPending ==
    (Resolves /\ w_last'.n > w_log'.cur) =>
        (w_log'.cur < w_log'.built /\ w_log.pended)

\* C21: pending-write acknowledgement.  While write_state is FlushingData,
\* poll_write ignores its buffer and returns, once the frame is sent, the plaintext
\* count recorded at the build: at most the length of the buffer passed at
\* the build, at least 1 when that buffer was not empty, and above the length
\* of the current call's buffer only if the caller came back with a shorter
\* buffer after a Pending.
C21_PendingAck == [][CountOfBuild /\ LongCountAfterPending]_vars

(***************************************************************************)
(* poll_write with an empty buffer.                                        *)
(***************************************************************************)
\* a poll_write in BuildingData that was given an empty buffer
EmptyBuild ==
    /\ pc = "ready"
    /\ write_state.tag = "BuildingData"
    /\ w_log'.chunks > w_log.chunks
    /\ w_log'.cur = 0

EmptyInStep ==
    EmptyBuild =>
        /\ w_log'.chunks = w_log.chunks + 1
        /\ aead_write_cipher'.present = aead_write_cipher.present
        /\ aead_write_cipher'.count =
              aead_write_cipher.count + (IF aead_write_cipher.present THEN 1 ELSE 0)
        /\ BLen(wire') + BLen(write_buf')
              = BLen(wire) + 2 + overhead_len(aead_write_cipher)
        /\ write_state'.tag = "FlushingData" =>
              /\ write_state'.consumed = 0
              /\ write_state'.total = 2 + overhead_len(aead_write_cipher)
              /\ w_last'.kind # "ok"
        /\ write_state'.tag = "BuildingData" => w_last' = Ready(0)

\* the frame built last, when the buffer of its build was empty
EmptyInState ==
    (pc = "ready" /\ w_log.chunks > 0 /\ w_log.built = 0) =>
        \A f \in {BuiltFrames} :
           /\ f.ok /\ f.tail = << >>
           /\ Len(f.pts) = w_log.chunks
           /\ f.lens[Len(f.lens)] = overhead_len(aead_write_cipher)
           /\ f.lens[Len(f.lens)] = (IF security = SECURITY_NONE THEN 0 ELSE 16)
           /\ f.pts[Len(f.pts)] = << >>
           /\ aead_write_cipher.present => aead_write_cipher.count = w_log.chunks
           /\ write_state.tag = "BuildingData" =>
                 /\ w_log.acks[Len(w_log.acks)] = 0
                 /\ Len(WireFrames.pts) = w_log.chunks

\* C22: empty write.  poll_write in BuildingData with an empty buffer builds
\* one frame with empty plaintext, whose length field is the overhead (16
\* with an AEAD cipher, 0 with security none), advances the write chunk
\* counter by one when a cipher is present, sends the frame and resolves
\* with Ok(0).
C22_EmptyWrite == []EmptyInState /\ [][EmptyInStep]_vars

\* an empty write behind a one-byte write, both sealed and wholly on the wire
C22_Witness ==
    /\ pc = "ready"
    /\ aead_write_cipher.present /\ aead_write_cipher.count = 2
    /\ write_state.tag = "BuildingData"
    /\ w_log.chunks = 2 /\ w_log.built = 0
    /\ w_log.acks = << 1, 0 >>
    /\ WireFrames.lens = << 17, 16 >>

(***************************************************************************)
(* poll_flush and poll_shutdown.                                           *)
(***************************************************************************)
\* a step of poll_flush that had something to flush, a step of poll_shutdown
FlushStep == pc = "ready" /\ t_dirty /\ ~t_dirty'
ShutdownStep == pc = "ready" /\ ~t_shutdown /\ t_shutdown'

ForwardOnly ==
    /\ (FlushStep \/ ShutdownStep) =>
          UNCHANGED << read_state, read_pos, read_buf, aead_read_cipher,
                       write_state, write_buf, aead_write_cipher, wire >>
    /\ t_shutdown => UNCHANGED << write_state, write_buf, aead_write_cipher, wire >>

\* a transport shut down in the middle of a chunk has a part of a frame last
PartialFrameLeft ==
    (pc = "ready" /\ t_shutdown /\ write_state.tag = "FlushingData") =>
        /\ BLen(write_buf) = write_state.total - write_state.written
        /\ BLen(write_buf) > 0
        /\ BLen(WireFrames.tail) = write_state.written
        /\ Len(WireFrames.pts) = w_log.chunks - 1

\* C23: poll_flush and poll_shutdown only forward to the transport.  They
\* leave read_state, read_pos, read_buf, write_state, write_buf and both
\* chunk counters as they are; with a chunk partly sent, poll_flush sends
\* none of the bytes left in write_buf, and poll_shutdown shuts the
\* transport down with a part of a frame last on the wire.
C23_ForwardOnly == []PartialFrameLeft /\ [][ForwardOnly]_vars

\* flushed and shut down with a frame partly on the wire
C23_Witness ==
    /\ pc = "ready"
    /\ t_shutdown /\ ~t_dirty
    /\ write_state.tag = "FlushingData"
    /\ write_state.written > 0
    /\ BLen(write_buf) > 0
    /\ BLen(WireFrames.tail) = write_state.written

(***************************************************************************)
(* Chunks shorter than the overhead of the cipher.                         *)
(***************************************************************************)
\* a poll_read that is, or ends, in StreamWaitingData(size) with a cipher and
\* size below the overhead: never Ok, never a panic, nothing for the caller
ShortInStep ==
    (/\ pc = "ready" /\ ReadStep
     /\ aead_read_cipher.present
     /\ read_state'.tag = "StreamWaitingData"
     /\ read_state'.n < OVERHEAD_LEN) =>
        /\ r_last'.kind = "pending" \/ r_last'.kind = "err"
        /\ r_got' = r_got
        /\ aead_read_cipher' = aead_read_cipher
        /\ (read_state' = read_state /\ r_log'.done >= r_log.done + read_state.n
              /\ r_last'.kind # "pending")
              => r_last'.err = "decryption failed"

\* a poll_read that starts in StreamWaitingData(size) with a cipher and
\* accepts the chunk: the plaintext is size - 16 bytes, from 0 to 16368
AcceptInStep ==
    (/\ pc = "ready" /\ ReadStep
     /\ aead_read_cipher.present
     /\ read_state.tag = "StreamWaitingData"
     /\ aead_read_cipher'.count # aead_read_cipher.count) =>
        /\ read_state.n >= OVERHEAD_LEN
        /\ read_state.n - OVERHEAD_LEN <= 16368
        /\ r_log'.path[2] = "StreamFlushingData"
        /\ (Len(r_log'.path) = 2 \/ aead_read_cipher'.count = aead_read_cipher.count + 1)
              => BLen(r_log'.opened) = BLen(r_log.opened) + read_state.n - OVERHEAD_LEN
        /\ Len(r_log'.path) = 2 =>
              r_last'.n + read_state'.n = read_state.n - OVERHEAD_LEN

ShortInState ==
    /\ r_last.err # "panic"
    /\ pc # "panicked"
    /\ (aead_read_cipher.present /\ read_state.tag = "StreamFlushingData") =>
          (read_state.n >= 0 /\ read_state.n <= 16368)
    /\ BLen(r_log.opened) <= srv.sent

\* C24: short chunk with a cipher.  With an AEAD read cipher, a chunk whose
\* length field is below the 16 bytes of overhead (0 included) makes
\* poll_read return an error, and size - overhead is never computed below 0;
\* the plaintext of every accepted chunk is size - 16 bytes, from 0 to 16368.
C24_ShortChunk == []ShortInState /\ [][ShortInStep /\ AcceptInStep]_vars

\* a chunk of one byte refused behind an accepted chunk of three bytes of plaintext
C24_Witness ==
    /\ pc = "ready"
    /\ aead_read_cipher.present /\ aead_read_cipher.count = 1
    /\ read_state = ReadState("StreamWaitingData", 1)
    /\ r_last.err = "decryption failed"
    /\ read_pos = 0
    /\ r_log.done = r_log.taken
    /\ BLen(r_got) = 3

(***************************************************************************)
(* url-test: what fastest() selects.                                       *)
(***************************************************************************)
\* a proxy after the first is alive
LaterAlive == \E i \in 2..Len(proxies) : alive[proxies[i]]

\* C25: fastest() always yields a selection.  For every list of proxies that
\* is not empty, whether or not a proxy was selected before, a call of
\* fastest() ends with fastest_proxy set and returns it, without a panic.
C25_AlwaysSelects ==
    (fastest_ret # NoReturn /\ proxies # << >>) =>
        /\ fastest_ret.kind = "ok"
        /\ fastest_proxy = SomeProxy(fastest_ret.name)

\* the first proxy and the later ones that are alive, by index
Candidates == {1} \cup {i \in 2..Len(proxies) : alive[proxies[i]]}
\* the earliest of the candidates of the smallest last_delay
Best ==
    CHOOSE i \in Candidates :
        \A j \in Candidates :
            \/ last_delay[proxies[i]] < last_delay[proxies[j]]
            \/ last_delay[proxies[i]] = last_delay[proxies[j]] /\ i <= j

SelectedInState ==
    (fastest_ret # NoReturn /\ LaterAlive) =>
        /\ fastest_ret = [kind |-> "ok", name |-> proxies[Best]]
        /\ fastest_proxy = SomeProxy(proxies[Best])

KeptInStep ==
    (fastest_ret = NoReturn /\ fastest_ret' # NoReturn /\ ~LaterAlive) =>
        fastest_proxy' = fastest_proxy

\* C26: url-test selection rule.  With a proxy after the first alive,
\* fastest() stores and returns the proxy of the smallest last_delay among
\* the first proxy, alive or not, and the later proxies that are alive, the
\* earliest in the list on ties, whatever the tolerance and the proxy
\* selected before; with no later proxy alive, fastest_proxy stays as it is.
C26_SelectionRule == []SelectedInState /\ [][KeptInStep]_vars

\* the second of three proxies returned: it ties with the third, the first is
\* slower and not alive, the tolerance is the largest there is
C26_Witness ==
    /\ Len(proxies) = 3
    /\ proxies[1] # proxies[2] /\ proxies[2] # proxies[3] /\ proxies[1] # proxies[3]
    /\ ~alive[proxies[1]] /\ alive[proxies[2]] /\ alive[proxies[3]]
    /\ last_delay[proxies[1]] = 20
    /\ last_delay[proxies[2]] = 10 /\ last_delay[proxies[3]] = 10
    /\ tolerance = 65535
    /\ fastest_ret = [kind |-> "ok", name |-> proxies[2]]
    /\ fastest_proxy = SomeProxy(proxies[2])

====
